---- MODULE Spec2Model ----
(***************************************************************************)
(* egui-thematic: the override-merge model of ThemeConfig                  *)
(* (src/src/config.rs): presets, to_visuals, JSON persistence through      *)
(* serde, and the Rust code export; the theme editor over it               *)
(* (src/src/state.rs, src/src/ui.rs), the self-contained variant of both   *)
(* in src/src/lib.rs (definitions lib_..., Lib...), and the buttons of the *)
(* demo application (src/demo/src/app.rs).                                 *)
(*                                                                         *)
(* Representation.                                                         *)
(*   Option<T>      None is <<>>, Some(v) is <<v>>                         *)
(*   [u8; 4]        <<r, g, b, a>>                                         *)
(*   f32            an integer number of tenths (15 is 1.5)                *)
(*   Color32        <<"Color32", <<r, g, b, a>>>>, premultiplied bytes     *)
(*   Visuals        a function from attribute paths to tagged values; the  *)
(*                  attributes of Visuals::dark() / Visuals::light() that  *)
(*                  the crate never inspects are the opaque values         *)
(*                  <<"base", <<mode, path>>>>                             *)
(*   JSON value     <<tag, payload>>, a document is an object given as the *)
(*                  sequence of its <<key, value>> members                 *)
(*   usize          a natural number; an index i of a Vec is element i + 1 *)
(*                  of the sequence                                        *)
(***************************************************************************)
EXTENDS Integers, Sequences, FiniteSets, TLC

VARIABLES config, file, fileFrom, ret, ops, editor_state, ctx

vars == <<config, file, fileFrom, ret, ops, editor_state, ctx>>

\* Number of configuration-changing calls explored in one session.
MaxOps == 1

None == <<>>

Some(v) == <<v>>

is_some(o) == o # None

unwrap(o) == o[1]

(***************************************************************************)
(* struct ThemeConfig: the override fields in declaration order, each with *)
(* its value type, the Visuals attribute that to_visuals writes and the    *)
(* conversion applied to the value.                                        *)
(***************************************************************************)
KeyTable == <<
    <<"override_text_color", "color", "override_text_color", "some_color">>,
    <<"override_weak_text_color", "color", "weak_text_color", "some_color">>,
    <<"override_hyperlink_color", "color", "hyperlink_color", "color">>,
    <<"override_faint_bg_color", "color", "faint_bg_color", "color">>,
    <<"override_extreme_bg_color", "color", "extreme_bg_color", "color">>,
    <<"override_code_bg_color", "color", "code_bg_color", "color">>,
    <<"override_warn_fg_color", "color", "warn_fg_color", "color">>,
    <<"override_error_fg_color", "color", "error_fg_color", "color">>,
    <<"override_window_fill", "color", "window_fill", "color">>,
    <<"override_window_stroke_color", "color", "window_stroke.color", "color">>,
    <<"override_window_stroke_width", "f32", "window_stroke.width", "copy">>,
    <<"override_window_corner_radius", "u8", "window_corner_radius", "corner">>,
    <<"override_window_shadow_size", "u8", "window_shadow.spread", "copy">>,
    <<"override_panel_fill", "color", "panel_fill", "color">>,
    <<"override_popup_shadow_size", "u8", "popup_shadow.spread", "copy">>,
    <<"override_selection_bg", "color", "selection.bg_fill", "color">>,
    <<"override_selection_stroke_color", "color", "selection.stroke.color", "color">>,
    <<"override_selection_stroke_width", "f32", "selection.stroke.width", "copy">>,
    <<"override_widget_noninteractive_bg_fill", "color", "widgets.noninteractive.bg_fill", "color">>,
    <<"override_widget_noninteractive_weak_bg_fill", "color", "widgets.noninteractive.weak_bg_fill", "color">>,
    <<"override_widget_noninteractive_bg_stroke_color", "color", "widgets.noninteractive.bg_stroke.color", "color">>,
    <<"override_widget_noninteractive_bg_stroke_width", "f32", "widgets.noninteractive.bg_stroke.width", "copy">>,
    <<"override_widget_noninteractive_corner_radius", "u8", "widgets.noninteractive.corner_radius", "corner">>,
    <<"override_widget_noninteractive_fg_stroke_color", "color", "widgets.noninteractive.fg_stroke.color", "color">>,
    <<"override_widget_noninteractive_fg_stroke_width", "f32", "widgets.noninteractive.fg_stroke.width", "copy">>,
    <<"override_widget_noninteractive_expansion", "f32", "widgets.noninteractive.expansion", "copy">>,
    <<"override_widget_inactive_bg_fill", "color", "widgets.inactive.bg_fill", "color">>,
    <<"override_widget_inactive_weak_bg_fill", "color", "widgets.inactive.weak_bg_fill", "color">>,
    <<"override_widget_inactive_bg_stroke_color", "color", "widgets.inactive.bg_stroke.color", "color">>,
    <<"override_widget_inactive_bg_stroke_width", "f32", "widgets.inactive.bg_stroke.width", "copy">>,
    <<"override_widget_inactive_corner_radius", "u8", "widgets.inactive.corner_radius", "corner">>,
    <<"override_widget_inactive_fg_stroke_color", "color", "widgets.inactive.fg_stroke.color", "color">>,
    <<"override_widget_inactive_fg_stroke_width", "f32", "widgets.inactive.fg_stroke.width", "copy">>,
    <<"override_widget_inactive_expansion", "f32", "widgets.inactive.expansion", "copy">>,
    <<"override_widget_hovered_bg_fill", "color", "widgets.hovered.bg_fill", "color">>,
    <<"override_widget_hovered_weak_bg_fill", "color", "widgets.hovered.weak_bg_fill", "color">>,
    <<"override_widget_hovered_bg_stroke_color", "color", "widgets.hovered.bg_stroke.color", "color">>,
    <<"override_widget_hovered_bg_stroke_width", "f32", "widgets.hovered.bg_stroke.width", "copy">>,
    <<"override_widget_hovered_corner_radius", "u8", "widgets.hovered.corner_radius", "corner">>,
    <<"override_widget_hovered_fg_stroke_color", "color", "widgets.hovered.fg_stroke.color", "color">>,
    <<"override_widget_hovered_fg_stroke_width", "f32", "widgets.hovered.fg_stroke.width", "copy">>,
    <<"override_widget_hovered_expansion", "f32", "widgets.hovered.expansion", "copy">>,
    <<"override_widget_active_bg_fill", "color", "widgets.active.bg_fill", "color">>,
    <<"override_widget_active_weak_bg_fill", "color", "widgets.active.weak_bg_fill", "color">>,
    <<"override_widget_active_bg_stroke_color", "color", "widgets.active.bg_stroke.color", "color">>,
    <<"override_widget_active_bg_stroke_width", "f32", "widgets.active.bg_stroke.width", "copy">>,
    <<"override_widget_active_corner_radius", "u8", "widgets.active.corner_radius", "corner">>,
    <<"override_widget_active_fg_stroke_color", "color", "widgets.active.fg_stroke.color", "color">>,
    <<"override_widget_active_fg_stroke_width", "f32", "widgets.active.fg_stroke.width", "copy">>,
    <<"override_widget_active_expansion", "f32", "widgets.active.expansion", "copy">>,
    <<"override_widget_open_bg_fill", "color", "widgets.open.bg_fill", "color">>,
    <<"override_widget_open_weak_bg_fill", "color", "widgets.open.weak_bg_fill", "color">>,
    <<"override_widget_open_bg_stroke_color", "color", "widgets.open.bg_stroke.color", "color">>,
    <<"override_widget_open_bg_stroke_width", "f32", "widgets.open.bg_stroke.width", "copy">>,
    <<"override_widget_open_corner_radius", "u8", "widgets.open.corner_radius", "corner">>,
    <<"override_widget_open_fg_stroke_color", "color", "widgets.open.fg_stroke.color", "color">>,
    <<"override_widget_open_fg_stroke_width", "f32", "widgets.open.fg_stroke.width", "copy">>,
    <<"override_widget_open_expansion", "f32", "widgets.open.expansion", "copy">>,
    <<"override_resize_corner_size", "f32", "resize_corner_size", "copy">>,
    <<"override_text_cursor_width", "f32", "text_cursor.stroke.width", "copy">>,
    <<"override_clip_rect_margin", "f32", "clip_rect_margin", "copy">>,
    <<"override_button_frame", "bool", "button_frame", "copy">>,
    <<"override_collapsing_header_frame", "bool", "collapsing_header_frame", "copy">>,
    <<"override_indent_has_left_vline", "bool", "indent_has_left_vline", "copy">>,
    <<"override_striped", "bool", "striped", "copy">>,
    <<"override_slider_trailing_fill", "bool", "slider_trailing_fill", "copy">>
>>

NumKeys == Len(KeyTable)

KeyOrder == [i \in 1..NumKeys |-> KeyTable[i][1]]

Keys == {KeyTable[i][1] : i \in 1..NumKeys}

FieldOrder == <<"name", "dark_mode">> \o KeyOrder

FieldNames == {"name", "dark_mode"} \cup Keys

KeyIndex(k) == CHOOSE i \in 1..NumKeys : KeyTable[i][1] = k

KeyType(k) == KeyTable[KeyIndex(k)][2]

Target(k) == KeyTable[KeyIndex(k)][3]

\* impl Default for ThemeConfig
Default ==
    [f \in FieldNames |->
        IF f = "name" THEN "Dark"
        ELSE IF f = "dark_mode" THEN TRUE
        ELSE None]

dark_preset ==
    [Default EXCEPT !.name = "Dark", !.dark_mode = TRUE]

light_preset_dark_base ==
    [Default EXCEPT !.name = "Light"]

light_preset ==
    [Default EXCEPT !.name = "Light", !.dark_mode = FALSE]

dracula_preset ==
    [Default EXCEPT !.name = "Dracula", !.dark_mode = TRUE,
        !.override_text_color = Some(<<248, 248, 242, 255>>),
        !.override_window_fill = Some(<<40, 42, 54, 255>>),
        !.override_panel_fill = Some(<<68, 71, 90, 255>>),
        !.override_selection_bg = Some(<<98, 114, 164, 255>>),
        !.override_hyperlink_color = Some(<<139, 233, 253, 255>>),
        !.override_faint_bg_color = Some(<<68, 71, 90, 255>>),
        !.override_extreme_bg_color = Some(<<21, 22, 30, 255>>),
        !.override_code_bg_color = Some(<<68, 71, 90, 255>>),
        !.override_warn_fg_color = Some(<<241, 250, 140, 255>>),
        !.override_error_fg_color = Some(<<255, 85, 85, 255>>)]

nord_preset ==
    [Default EXCEPT !.name = "Nord", !.dark_mode = TRUE,
        !.override_text_color = Some(<<216, 222, 233, 255>>),
        !.override_window_fill = Some(<<46, 52, 64, 255>>),
        !.override_panel_fill = Some(<<59, 66, 82, 255>>),
        !.override_selection_bg = Some(<<136, 192, 208, 255>>),
        !.override_hyperlink_color = Some(<<136, 192, 208, 255>>),
        !.override_faint_bg_color = Some(<<59, 66, 82, 255>>),
        !.override_extreme_bg_color = Some(<<29, 33, 42, 255>>),
        !.override_code_bg_color = Some(<<59, 66, 82, 255>>),
        !.override_warn_fg_color = Some(<<235, 203, 139, 255>>),
        !.override_error_fg_color = Some(<<191, 97, 106, 255>>)]

gruvbox_dark_preset ==
    [Default EXCEPT !.name = "Gruvbox Dark", !.dark_mode = TRUE,
        !.override_text_color = Some(<<235, 219, 178, 255>>),
        !.override_window_fill = Some(<<40, 40, 40, 255>>),
        !.override_panel_fill = Some(<<60, 56, 54, 255>>),
        !.override_selection_bg = Some(<<102, 92, 84, 255>>),
        !.override_hyperlink_color = Some(<<131, 165, 152, 255>>),
        !.override_faint_bg_color = Some(<<60, 56, 54, 255>>),
        !.override_extreme_bg_color = Some(<<29, 32, 33, 255>>),
        !.override_code_bg_color = Some(<<60, 56, 54, 255>>),
        !.override_warn_fg_color = Some(<<250, 189, 47, 255>>),
        !.override_error_fg_color = Some(<<251, 73, 52, 255>>)]

solarized_dark_preset ==
    [Default EXCEPT !.name = "Solarized Dark", !.dark_mode = TRUE,
        !.override_text_color = Some(<<131, 148, 150, 255>>),
        !.override_window_fill = Some(<<0, 43, 54, 255>>),
        !.override_panel_fill = Some(<<7, 54, 66, 255>>),
        !.override_selection_bg = Some(<<88, 110, 117, 255>>),
        !.override_hyperlink_color = Some(<<42, 161, 152, 255>>),
        !.override_faint_bg_color = Some(<<7, 54, 66, 255>>),
        !.override_extreme_bg_color = Some(<<0, 30, 38, 255>>),
        !.override_code_bg_color = Some(<<7, 54, 66, 255>>),
        !.override_warn_fg_color = Some(<<181, 137, 0, 255>>),
        !.override_error_fg_color = Some(<<220, 50, 47, 255>>)]

solarized_light_preset ==
    [Default EXCEPT !.name = "Solarized Light", !.dark_mode = FALSE,
        !.override_text_color = Some(<<101, 123, 131, 255>>),
        !.override_window_fill = Some(<<253, 246, 227, 255>>),
        !.override_panel_fill = Some(<<238, 232, 213, 255>>),
        !.override_selection_bg = Some(<<147, 161, 161, 255>>),
        !.override_hyperlink_color = Some(<<38, 139, 210, 255>>),
        !.override_faint_bg_color = Some(<<238, 232, 213, 255>>),
        !.override_extreme_bg_color = Some(<<253, 246, 227, 255>>),
        !.override_code_bg_color = Some(<<238, 232, 213, 255>>),
        !.override_warn_fg_color = Some(<<181, 137, 0, 255>>),
        !.override_error_fg_color = Some(<<220, 50, 47, 255>>)]

monokai_preset ==
    [Default EXCEPT !.name = "Monokai", !.dark_mode = TRUE,
        !.override_text_color = Some(<<248, 248, 242, 255>>),
        !.override_window_fill = Some(<<39, 40, 34, 255>>),
        !.override_panel_fill = Some(<<73, 72, 62, 255>>),
        !.override_selection_bg = Some(<<73, 72, 62, 255>>),
        !.override_hyperlink_color = Some(<<102, 217, 239, 255>>),
        !.override_faint_bg_color = Some(<<73, 72, 62, 255>>),
        !.override_extreme_bg_color = Some(<<30, 31, 25, 255>>),
        !.override_code_bg_color = Some(<<73, 72, 62, 255>>),
        !.override_warn_fg_color = Some(<<230, 219, 116, 255>>),
        !.override_error_fg_color = Some(<<249, 38, 114, 255>>)]

one_dark_preset ==
    [Default EXCEPT !.name = "One Dark", !.dark_mode = TRUE,
        !.override_text_color = Some(<<171, 178, 191, 255>>),
        !.override_window_fill = Some(<<40, 44, 52, 255>>),
        !.override_panel_fill = Some(<<33, 37, 43, 255>>),
        !.override_selection_bg = Some(<<61, 66, 77, 255>>),
        !.override_hyperlink_color = Some(<<97, 175, 239, 255>>),
        !.override_faint_bg_color = Some(<<33, 37, 43, 255>>),
        !.override_extreme_bg_color = Some(<<21, 23, 27, 255>>),
        !.override_code_bg_color = Some(<<33, 37, 43, 255>>),
        !.override_warn_fg_color = Some(<<229, 192, 123, 255>>),
        !.override_error_fg_color = Some(<<224, 108, 117, 255>>)]

tokyo_night_preset ==
    [Default EXCEPT !.name = "Tokyo Night", !.dark_mode = TRUE,
        !.override_text_color = Some(<<192, 202, 245, 255>>),
        !.override_window_fill = Some(<<26, 27, 38, 255>>),
        !.override_panel_fill = Some(<<36, 40, 59, 255>>),
        !.override_selection_bg = Some(<<56, 62, 90, 255>>),
        !.override_hyperlink_color = Some(<<122, 162, 247, 255>>),
        !.override_faint_bg_color = Some(<<36, 40, 59, 255>>),
        !.override_extreme_bg_color = Some(<<16, 17, 28, 255>>),
        !.override_code_bg_color = Some(<<36, 40, 59, 255>>),
        !.override_warn_fg_color = Some(<<224, 175, 104, 255>>),
        !.override_error_fg_color = Some(<<247, 118, 142, 255>>)]

catppuccin_mocha_preset_no_error_color ==
    [Default EXCEPT !.name = "Catppuccin Mocha", !.dark_mode = TRUE,
        !.override_text_color = Some(<<205, 214, 244, 255>>),
        !.override_window_fill = Some(<<30, 30, 46, 255>>),
        !.override_panel_fill = Some(<<49, 50, 68, 255>>),
        !.override_selection_bg = Some(<<88, 91, 112, 255>>),
        !.override_hyperlink_color = Some(<<137, 180, 250, 255>>),
        !.override_faint_bg_color = Some(<<49, 50, 68, 255>>),
        !.override_extreme_bg_color = Some(<<17, 17, 27, 255>>),
        !.override_code_bg_color = Some(<<49, 50, 68, 255>>),
        !.override_warn_fg_color = Some(<<249, 226, 175, 255>>)]

catppuccin_mocha_preset ==
    [Default EXCEPT !.name = "Catppuccin Mocha", !.dark_mode = TRUE,
        !.override_text_color = Some(<<205, 214, 244, 255>>),
        !.override_window_fill = Some(<<30, 30, 46, 255>>),
        !.override_panel_fill = Some(<<49, 50, 68, 255>>),
        !.override_selection_bg = Some(<<88, 91, 112, 255>>),
        !.override_hyperlink_color = Some(<<137, 180, 250, 255>>),
        !.override_faint_bg_color = Some(<<49, 50, 68, 255>>),
        !.override_extreme_bg_color = Some(<<17, 17, 27, 255>>),
        !.override_code_bg_color = Some(<<49, 50, 68, 255>>),
        !.override_warn_fg_color = Some(<<249, 226, 175, 255>>),
        !.override_error_fg_color = Some(<<243, 139, 168, 255>>)]

all_presets_light_first ==
    << light_preset, dark_preset, dracula_preset, nord_preset,
       gruvbox_dark_preset, solarized_dark_preset, solarized_light_preset,
       monokai_preset, one_dark_preset, tokyo_night_preset,
       catppuccin_mocha_preset >>

all_presets ==
    << dark_preset, light_preset, dracula_preset, nord_preset,
       gruvbox_dark_preset, solarized_dark_preset, solarized_light_preset,
       monokai_preset, one_dark_preset, tokyo_night_preset,
       catppuccin_mocha_preset >>

(***************************************************************************)
(* egui::Visuals and egui::Color32 as far as the crate uses them.          *)
(***************************************************************************)

\* round(c * a / 255) for bytes c and a
premultiply(c, a) == (2 * c * a + 255) \div 510

\* Color32::from_rgba_unmultiplied: the stored bytes are premultiplied
from_rgba_unmultiplied(color) ==
    IF color[4] = 255 THEN <<"Color32", color>>
    ELSE IF color[4] = 0 THEN <<"Color32", <<0, 0, 0, 0>>>>
    ELSE <<"Color32", << premultiply(color[1], color[4]),
                         premultiply(color[2], color[4]),
                         premultiply(color[3], color[4]),
                         color[4] >> >>

\* egui::CornerRadius::same
CornerRadius_same(radius) == <<"CornerRadius", <<radius, radius, radius, radius>>>>

\* Attributes of Visuals that no override field writes.
OtherAttrs ==
    { "dark_mode", "window_shadow.offset", "window_shadow.blur",
      "window_shadow.color", "popup_shadow.offset", "popup_shadow.blur",
      "popup_shadow.color", "menu_corner_radius", "text_cursor.stroke.color",
      "window_highlight_topmost", "handle_shape", "interact_cursor" }

VisualsAttrs == {KeyTable[i][3] : i \in 1..NumKeys} \cup OtherAttrs

\* Visuals::dark() when dark is TRUE, Visuals::light() otherwise
BaseVisuals(dark) ==
    [a \in VisualsAttrs |->
        IF a = "dark_mode" THEN <<"bool", dark>>
        ELSE IF a \in {"override_text_color", "weak_text_color"}
             THEN <<"None", <<>>>>
        ELSE <<"base", <<IF dark THEN "dark" ELSE "light", a>>>>]

\* Convert with Color32::from_rgb in place of from_rgba_unmultiplied.
Convert_from_rgb(i, value) ==
    LET conv == KeyTable[i][4]
        opaque == <<"Color32", <<value[1], value[2], value[3], 255>>>>
    IN
    IF conv = "some_color" THEN <<"Some", opaque>>
    ELSE IF conv = "color" THEN opaque
    ELSE IF conv = "corner" THEN CornerRadius_same(value)
    ELSE <<KeyTable[i][2], value>>

\* The right-hand side of one assignment of to_visuals.
Convert(i, value) ==
    LET conv == KeyTable[i][4] IN
    IF conv = "some_color" THEN <<"Some", from_rgba_unmultiplied(value)>>
    ELSE IF conv = "color" THEN from_rgba_unmultiplied(value)
    ELSE IF conv = "corner" THEN CornerRadius_same(value)
    ELSE <<KeyTable[i][2], value>>

\* ApplyOverride where the window fill block also paints the panels.
ApplyOverride_also_panel(visuals, self, i) ==
    LET k == KeyTable[i][1] IN
    IF is_some(self[k])
    THEN IF k = "override_window_fill"
         THEN [visuals EXCEPT ![KeyTable[i][3]] = Convert(i, unwrap(self[k])),
                              !["panel_fill"] = Convert(i, unwrap(self[k]))]
         ELSE [visuals EXCEPT ![KeyTable[i][3]] = Convert(i, unwrap(self[k]))]
    ELSE visuals

\* ApplyOverride where the panel fill block assigns visuals.window_fill.
ApplyOverride_shared_target(visuals, self, i) ==
    LET k == KeyTable[i][1]
        target == IF k = "override_panel_fill" THEN "window_fill" ELSE KeyTable[i][3]
    IN
    IF is_some(self[k])
    THEN [visuals EXCEPT ![target] = Convert(i, unwrap(self[k]))]
    ELSE visuals

\* One `if let Some(..) = self.override_.. { visuals... = ..; }` block.
ApplyOverride(visuals, self, i) ==
    LET k == KeyTable[i][1] IN
    IF is_some(self[k])
    THEN [visuals EXCEPT ![KeyTable[i][3]] = Convert(i, unwrap(self[k]))]
    ELSE visuals

RECURSIVE ApplySeq(_, _, _)
\* The blocks of to_visuals run one after the other, in the given order of
\* field indices (the test on DOMAIN visuals has TLC evaluate the style built
\* so far at every step; a style always has attributes).
ApplySeq(visuals, self, order) ==
    IF order = <<>> \/ DOMAIN visuals = {} THEN visuals
    ELSE ApplySeq(ApplyOverride(visuals, self, Head(order)), self, Tail(order))

SourceOrder == [i \in 1..NumKeys |-> i]

\* to_visuals that always starts from Visuals::dark().
to_visuals_dark_only(self) == ApplySeq(BaseVisuals(TRUE), self, SourceOrder)

\* ThemeConfig::to_visuals
to_visuals(self) == ApplySeq(BaseVisuals(self.dark_mode), self, SourceOrder)

(***************************************************************************)
(* ThemeConfig::to_rust_code: the generated text, line by line.  A line is *)
(* <<kind, text, arguments>>.                                              *)
(***************************************************************************)
CodeTable == <<
    <<"override_text_color", "override_text_color", TRUE>>,
    <<"override_window_fill", "window_fill", FALSE>>,
    <<"override_panel_fill", "panel_fill", FALSE>>,
    <<"override_selection_bg", "selection.bg_fill", FALSE>>,
    <<"override_hyperlink_color", "hyperlink_color", FALSE>>,
    <<"override_faint_bg_color", "faint_bg_color", FALSE>>,
    <<"override_extreme_bg_color", "extreme_bg_color", FALSE>>,
    <<"override_code_bg_color", "code_bg_color", FALSE>>,
    <<"override_warn_fg_color", "warn_fg_color", FALSE>>,
    <<"override_error_fg_color", "error_fg_color", FALSE>> >>

CodeHeader(self) ==
    << <<"text", "fn apply_theme(ctx: &egui::Context) {", <<>>>>,
       <<"base", "let mut visuals = if {} { dark } else { light };", <<self.dark_mode>>>> >>

CodeFooter ==
    << <<"text", "ctx.set_visuals(visuals);", <<>>>>,
       <<"text", "}", <<>>>> >>

\* the line `visuals.<target> = [Some(]Color32::from_rgba_unmultiplied(r, g, b, a)[)];`
AssignLine(row, color) ==
    <<IF row[3] THEN "assign_some" ELSE "assign", row[2], color>>

RECURSIVE CodeLines(_, _)
CodeLines(self, i) ==
    IF i > Len(CodeTable) THEN <<>>
    ELSE LET row == CodeTable[i] IN
         (IF is_some(self[row[1]])
          THEN <<AssignLine(row, unwrap(self[row[1]]))>>
          ELSE <<>>) \o CodeLines(self, i + 1)

to_rust_code(self) == CodeHeader(self) \o CodeLines(self, 1) \o CodeFooter

(***************************************************************************)
(* ThemeConfig::randomize.  The thread-local generator is the environment: *)
(* rng is one outcome of it, a coin and a stream of bytes.                 *)
(***************************************************************************)
RandomizeOrder ==
    << "override_text_color", "override_window_fill", "override_panel_fill",
       "override_selection_bg", "override_hyperlink_color",
       "override_faint_bg_color", "override_extreme_bg_color",
       "override_code_bg_color", "override_warn_fg_color",
       "override_error_fg_color" >>

random_color_stream_alpha(rng, n) ==
    <<rng.bytes[3 * n - 2], rng.bytes[3 * n - 1], rng.bytes[3 * n], rng.bytes[3 * n]>>

random_color(rng, n) ==
    <<rng.bytes[3 * n - 2], rng.bytes[3 * n - 1], rng.bytes[3 * n], 255>>

randomize(rng) ==
    [f \in FieldNames |->
        IF f = "name" THEN "Random"
        ELSE IF f = "dark_mode" THEN rng.dark
        ELSE IF \E n \in 1..Len(RandomizeOrder) : RandomizeOrder[n] = f
             THEN Some(random_color(rng, CHOOSE n \in 1..Len(RandomizeOrder) : RandomizeOrder[n] = f))
        ELSE None]

RngStreams ==
    { [dark |-> d, bytes |-> [i \in 1..30 |-> (sm[1] + i * sm[2]) % 256]] :
        d \in BOOLEAN, sm \in {<<0, 0>>, <<255, 0>>, <<17, 37>>} }

(***************************************************************************)
(* Values the explored configurations are built from.                      *)
(***************************************************************************)
ColorSamples == << <<255, 0, 0, 255>>, <<10, 20, 30, 255>>, <<255, 0, 0, 128>>, <<200, 100, 50, 0>> >>

F32Samples == <<0, 15, 20>>

U8Samples == <<0, 6, 255>>

BoolSamples == <<TRUE, FALSE>>

SamplesOf(type) ==
    IF type = "color" THEN ColorSamples
    ELSE IF type = "f32" THEN F32Samples
    ELSE IF type = "u8" THEN U8Samples
    ELSE BoolSamples

Range(s) == {s[i] : i \in DOMAIN s}

ValuesOf(type) == Range(SamplesOf(type))

Names == {"Dark", "Custom"}

AllNone(name, dark) == [Default EXCEPT !.name = name, !.dark_mode = dark]

Single(dark, k, v) == [AllNone("Custom", dark) EXCEPT ![k] = Some(v)]

\* every key set; neighbouring keys get different samples of their type
AllSet(dark, n) ==
    [f \in FieldNames |->
        IF f = "name" THEN "Custom"
        ELSE IF f = "dark_mode" THEN dark
        ELSE LET s == SamplesOf(KeyType(f)) IN Some(s[((n + KeyIndex(f)) % Len(s)) + 1])]

SetKeys(self) == {k \in Keys : is_some(self[k])}

ConfigInputs ==
    Range(all_presets)
    \cup {AllNone(n, d) : n \in Names, d \in BOOLEAN}
    \cup UNION {{Single(d, k, v) : v \in ValuesOf(KeyType(k))} : d \in BOOLEAN, k \in Keys}
    \cup {AllSet(d, n) : d \in BOOLEAN, n \in 1..4}
    \cup {randomize(rng) : rng \in RngStreams}

NoFile == <<"nofile", <<>>>>

NoResult == [op |-> "none", out |-> <<>>]

\* No ThemeEditorState has been constructed, no egui::Context exists.
NoEditor == <<"noeditor", <<>>>>

NoContext == <<"nocontext", <<>>>>

(***************************************************************************)
(* SpecApply: to_visuals and to_rust_code applied to a configuration.      *)
(***************************************************************************)
InitApply ==
    /\ config \in ConfigInputs
    /\ file = NoFile
    /\ fileFrom = None
    /\ ret = NoResult
    /\ ops = 0
    /\ editor_state = NoEditor
    /\ ctx = NoContext

ToVisuals ==
    /\ ret' = [op |-> "to_visuals", out |-> to_visuals(config)]
    /\ UNCHANGED <<config, file, fileFrom, ops, editor_state, ctx>>

ToRustCode ==
    /\ ret' = [op |-> "to_rust_code", out |-> to_rust_code(config)]
    /\ UNCHANGED <<config, file, fileFrom, ops, editor_state, ctx>>

NextApply == ToVisuals \/ ToRustCode

SpecApply == InitApply /\ [][NextApply]_vars

(***************************************************************************)
(* Properties of to_visuals.                                               *)
(***************************************************************************)
ColorBytes(c) == IF c[1] = "Some" THEN c[2][2] ELSE c[2]

\* Types of the attributes of egui::Visuals that are not plain values.
OptionColorAttrs == {"override_text_color", "weak_text_color"}

CornerRadiusAttrs ==
    { "window_corner_radius", "widgets.noninteractive.corner_radius",
      "widgets.inactive.corner_radius", "widgets.hovered.corner_radius",
      "widgets.active.corner_radius", "widgets.open.corner_radius" }

\* The value v of an override of the given type, as a value of attribute a.
AsAttribute(a, type, v) ==
    IF type = "color"
    THEN (IF a \in OptionColorAttrs THEN <<"Some", from_rgba_unmultiplied(v)>>
          ELSE from_rgba_unmultiplied(v))
    ELSE IF a \in CornerRadiusAttrs THEN CornerRadius_same(v)
    ELSE <<type, v>>

\* C1 Inheritance: a configuration with every override None resolves to the
\* base style of its mode, attribute for attribute, whatever its name is.
Inheritance ==
    (ret.op = "to_visuals" /\ SetKeys(config) = {})
        => ret.out = BaseVisuals(config.dark_mode)

InheritanceWitness ==
    /\ ret.op = "to_visuals"
    /\ SetKeys(config) = {}
    /\ ~config.dark_mode
    /\ config.name = "Custom"
    /\ ret.out["window_fill"] = <<"base", <<"light", "window_fill">>>>

\* C2 Override precedence: every override that is Some(v) determines its
\* target attribute: the attribute is v in the attribute's type (a Color32
\* decoded from the unmultiplied bytes v, whose bytes are v itself when v is
\* opaque; CornerRadius::same(v); the number or flag v), in both modes.
OverridePrecedence ==
    ret.op = "to_visuals" =>
        \A i \in 1..NumKeys :
            LET k == KeyTable[i][1]
                attr == ret.out[KeyTable[i][3]]
            IN  is_some(config[k]) =>
                    /\ attr = AsAttribute(KeyTable[i][3], KeyTable[i][2], unwrap(config[k]))
                    /\ (KeyTable[i][2] = "color" /\ unwrap(config[k])[4] = 255)
                            => ColorBytes(attr) = unwrap(config[k])

OverridePrecedenceWitness ==
    /\ ret.op = "to_visuals"
    /\ ~config.dark_mode
    /\ \A k \in Keys : is_some(config[k])
    /\ ret.out["widgets.open.expansion"][1] = "f32"
    /\ ret.out["panel_fill"][1] = "Color32"

\* C3 Single-override frame: with exactly one override set, every attribute
\* other than that override's target is the base style's; with only the text
\* colour set to [255,0,0,255] the text colour is exactly (255,0,0,255).
SingleOverrideFrame ==
    (ret.op = "to_visuals" /\ Cardinality(SetKeys(config)) = 1) =>
        LET k == CHOOSE key \in Keys : is_some(config[key]) IN
        /\ \A a \in VisualsAttrs \ {Target(k)} :
                ret.out[a] = BaseVisuals(config.dark_mode)[a]
        /\ config.override_text_color = Some(<<255, 0, 0, 255>>)
                => ret.out["override_text_color"] = <<"Some", <<"Color32", <<255, 0, 0, 255>>>>>>

SingleOverrideFrameWitness ==
    /\ ret.op = "to_visuals"
    /\ SetKeys(config) = {"override_text_color"}
    /\ config.override_text_color = Some(<<255, 0, 0, 255>>)
    /\ ret.out["override_text_color"] = <<"Some", <<"Color32", <<255, 0, 0, 255>>>>>>
    /\ ret.out["hyperlink_color"] = BaseVisuals(config.dark_mode)["hyperlink_color"]

Reversed(order) == [i \in 1..Len(order) |-> order[Len(order) + 1 - i]]

Rotated(order, r) == [i \in 1..Len(order) |-> order[((i + r - 1) % Len(order)) + 1]]

\* C4 Independence: no two override keys write the same attribute, any two
\* blocks of to_visuals commute, and running the blocks in another order
\* (reversed, or rotated by any amount) resolves to the same style.
Independence ==
    ret.op = "to_visuals" =>
        LET base == BaseVisuals(config.dark_mode) IN
        /\ \A i, j \in 1..NumKeys : i # j => KeyTable[i][3] # KeyTable[j][3]
        /\ \A i, j \in 1..NumKeys :
                (i < j /\ is_some(config[KeyTable[i][1]]) /\ is_some(config[KeyTable[j][1]])) =>
                    ApplyOverride(ApplyOverride(base, config, i), config, j)
                        = ApplyOverride(ApplyOverride(base, config, j), config, i)
        /\ ApplySeq(base, config, Reversed(SourceOrder)) = ret.out
        /\ \A r \in 1..(NumKeys - 1) :
                ApplySeq(base, config, Rotated(SourceOrder, r)) = ret.out

IndependenceWitness ==
    /\ ret.op = "to_visuals"
    /\ \A k \in Keys : is_some(config[k])
    /\ config.override_window_fill # config.override_panel_fill
    /\ ret.out = ApplySeq(BaseVisuals(config.dark_mode), config, Reversed(SourceOrder))

(***************************************************************************)
(* Properties of to_rust_code.                                             *)
(***************************************************************************)
IsAssign(line) == line[1] \in {"assign", "assign_some"}

AssignedTargets(code) ==
    LET lines == SelectSeq(code, IsAssign) IN [i \in 1..Len(lines) |-> lines[i][2]]

PresentTargets(self) ==
    LET Present(i) == is_some(self[KeyTable[i][1]])
        present == SelectSeq(SourceOrder, Present)
    IN  [i \in 1..Len(present) |-> KeyTable[present[i]][3]]

\* C10 Code export completeness: the generated code has exactly one
\* assignment line for every override that is present, in the field order of
\* ThemeConfig, and no line for an override that is None.
CodeExportComplete ==
    ret.op = "to_rust_code" => AssignedTargets(ret.out) = PresentTargets(config)

(***************************************************************************)
(* Persistence: #[derive(serde::Serialize, serde::Deserialize)] on         *)
(* ThemeConfig, serde_json::to_string_pretty / from_str, and the file.     *)
(* The content of a file is NoFile, <<"not_utf8", <<>>>>, the text of a    *)
(* JSON value, or <<"malformed", <<>>>> for text that is not JSON.         *)
(***************************************************************************)
Ok(v) == <<"Ok", v>>

Err(kind) == <<"Err", kind>>

JsonNull == <<"null", <<>>>>

JsonColor(color) == <<"array", [i \in 1..4 |-> <<"int", color[i]>>]>>

\* f32 written as a whole number by the serializer.
to_json_whole_f32(f, value) ==
    IF f = "name" THEN <<"string", value>>
    ELSE IF f = "dark_mode" THEN <<"bool", value>>
    ELSE IF value = None THEN JsonNull
    ELSE IF KeyType(f) = "color" THEN JsonColor(unwrap(value))
    ELSE IF KeyType(f) = "f32" THEN <<"float", 10 * ((unwrap(value) + 5) \div 10)>>
    ELSE IF KeyType(f) = "u8" THEN <<"int", unwrap(value)>>
    ELSE <<"bool", unwrap(value)>>

\* Serialize for one field: Option::None is written as null.
to_json(f, value) ==
    IF f = "name" THEN <<"string", value>>
    ELSE IF f = "dark_mode" THEN <<"bool", value>>
    ELSE IF value = None THEN JsonNull
    ELSE IF KeyType(f) = "color" THEN JsonColor(unwrap(value))
    ELSE IF KeyType(f) = "f32" THEN <<"float", unwrap(value)>>
    ELSE IF KeyType(f) = "u8" THEN <<"int", unwrap(value)>>
    ELSE <<"bool", unwrap(value)>>

\* serde_json::to_string_pretty(self): one member per field, in field order
Serialize(self) ==
    <<"object", [i \in 1..Len(FieldOrder) |-> <<FieldOrder[i], to_json(FieldOrder[i], self[FieldOrder[i]])>>]>>

IsU8(jv) == jv[1] = "int" /\ jv[2] \in 0..255

\* Deserialize for a value of the given type
deserialize_value(type, jv) ==
    IF type = "string" THEN
        (IF jv[1] = "string" THEN Ok(jv[2]) ELSE Err("invalid_type"))
    ELSE IF type = "bool" THEN
        (IF jv[1] = "bool" THEN Ok(jv[2]) ELSE Err("invalid_type"))
    ELSE IF type = "u8" THEN
        (IF jv[1] # "int" THEN Err("invalid_type")
         ELSE IF jv[2] \notin 0..255 THEN Err("invalid_value")
         ELSE Ok(jv[2]))
    ELSE IF type = "f32" THEN
        (IF jv[1] = "float" THEN Ok(jv[2])
         ELSE IF jv[1] = "int" THEN Ok(10 * jv[2])
         ELSE Err("invalid_type"))
    ELSE \* [u8; 4]
        (IF jv[1] # "array" THEN Err("invalid_type")
         ELSE IF Len(jv[2]) # 4 THEN Err("invalid_length")
         ELSE IF \E i \in 1..4 : jv[2][i][1] # "int" THEN Err("invalid_type")
         ELSE IF \E i \in 1..4 : ~IsU8(jv[2][i]) THEN Err("invalid_value")
         ELSE Ok([i \in 1..4 |-> jv[2][i][2]]))

\* Deserialize for one field of ThemeConfig: null is None for an Option
deserialize_field(f, jv) ==
    IF f = "name" THEN deserialize_value("string", jv)
    ELSE IF f = "dark_mode" THEN deserialize_value("bool", jv)
    ELSE IF jv = JsonNull THEN Ok(None)
    ELSE LET r == deserialize_value(KeyType(f), jv) IN
         IF r[1] = "Ok" THEN Ok(Some(r[2])) ELSE r

NoFields == [f \in FieldNames |-> <<>>]

\* visit_map under #[serde(deny_unknown_fields)].
visit_member_deny_unknown(fields, member) ==
    LET key == member[1] IN
    IF key \notin FieldNames THEN Err("unknown_field")
    ELSE IF fields[2][key] # <<>> THEN Err("duplicate_field")
    ELSE LET r == deserialize_field(key, member[2]) IN
         IF r[1] = "Ok" THEN Ok([fields[2] EXCEPT ![key] = <<r[2]>>]) ELSE r

\* One iteration of the derived visit_map: an unknown key is skipped, a
\* repeated known key is an error, a known key is deserialized.
visit_member(fields, member) ==
    LET key == member[1] IN
    IF key \notin FieldNames THEN fields
    ELSE IF fields[2][key] # <<>> THEN Err("duplicate_field")
    ELSE LET r == deserialize_field(key, member[2]) IN
         IF r[1] = "Ok" THEN Ok([fields[2] EXCEPT ![key] = <<r[2]>>]) ELSE r

RECURSIVE visit_map(_, _)
\* The loop of the derived visit_map; it stops at the first error.
visit_map(fields, members) ==
    IF fields[1] = "Err" \/ members = <<>> THEN fields
    ELSE visit_map(visit_member(fields, Head(members)), Tail(members))

\* build with #[serde(default)] on the struct.
build_with_defaults(fields) ==
    IF fields[1] = "Err" THEN fields
    ELSE Ok([f \in FieldNames |->
                IF fields[2][f] # <<>> THEN fields[2][f][1] ELSE Default[f]])

\* build where an absent Option field is a missing field.
build_all_required(fields) ==
    IF fields[1] = "Err" THEN fields
    ELSE IF \E f \in FieldNames : fields[2][f] = <<>> THEN Err("missing_field")
    ELSE Ok([f \in FieldNames |-> fields[2][f][1]])

\* The end of the derived visit_map: a field never seen is a missing field,
\* except an Option, which is None.
build(fields) ==
    IF fields[1] = "Err" THEN fields
    ELSE IF fields[2]["name"] = <<>> \/ fields[2]["dark_mode"] = <<>> THEN Err("missing_field")
    ELSE Ok([f \in FieldNames |->
                IF fields[2][f] # <<>> THEN fields[2][f][1] ELSE None])

\* The derived visit_seq: a JSON array gives the fields by position.
visit_seq(elements) ==
    LET n == Len(elements)
        m == IF n < Len(FieldOrder) THEN n ELSE Len(FieldOrder)
        bad == {i \in 1..m : deserialize_field(FieldOrder[i], elements[i])[1] = "Err"}
    IN  IF bad # {}
        THEN deserialize_field(FieldOrder[CHOOSE i \in bad : \A j \in bad : i <= j],
                               elements[CHOOSE i \in bad : \A j \in bad : i <= j])
        ELSE IF n # Len(FieldOrder) THEN Err("invalid_length")
        ELSE Ok([f \in FieldNames |->
                    deserialize_field(f, elements[CHOOSE i \in 1..n : FieldOrder[i] = f])[2]])

\* serde_json::from_str::<ThemeConfig>
Deserialize(json) ==
    IF json[1] = "malformed" THEN Err("syntax")
    ELSE IF json[1] = "object" THEN build(visit_map(Ok(NoFields), json[2]))
    ELSE IF json[1] = "array" THEN visit_seq(json[2])
    ELSE Err("invalid_type")

\* ThemeConfig::load_from_file on a file with the given content
load_from_file_all_io(content) ==
    IF content = NoFile \/ content[1] = "not_utf8" THEN Err("io")
    ELSE IF Deserialize(content)[1] = "Err" THEN Err("io")
    ELSE Deserialize(content)

load_from_file(content) ==
    IF content = NoFile \/ content[1] = "not_utf8" THEN Err("io")
    ELSE Deserialize(content)

\* The content of the file after ThemeConfig::save_to_file, by the outcome of
\* std::fs::write: written, not created, or created and not written in full.
written_file(self, old, io) ==
    IF io = "ok" THEN Serialize(self)
    ELSE IF io = "create_failed" THEN old
    ELSE <<"malformed", <<>>>>

IoOutcomes == {"ok", "create_failed", "write_failed"}

\* ThemeConfig::save_to_file: serialization of a ThemeConfig cannot fail
save_to_file(io) == IF io = "ok" THEN Ok(<<>>) ELSE Err("io")

(***************************************************************************)
(* Spec: one session with a configuration and its theme file.  The         *)
(* configuration starts as ThemeConfig::default(), is replaced by a preset *)
(* or by a randomized configuration, is edited field by field, and is      *)
(* saved to and loaded from the file.  fileFrom remembers the              *)
(* configuration whose save wrote the present content of the file.         *)
(***************************************************************************)
EditSamples(type) ==
    IF type = "color" THEN {ColorSamples[2], ColorSamples[3]}
    ELSE IF type = "f32" THEN {F32Samples[2]}
    ELSE IF type = "u8" THEN {U8Samples[2]}
    ELSE BOOLEAN

Init ==
    /\ config = Default
    /\ file = NoFile
    /\ fileFrom = None
    /\ ret = NoResult
    /\ ops = 0
    /\ editor_state = NoEditor
    /\ ctx = NoContext

Replace(new) ==
    /\ ops < MaxOps
    /\ config' = new
    /\ ops' = ops + 1
    /\ ret' = NoResult
    /\ UNCHANGED <<file, fileFrom, editor_state, ctx>>

UsePreset == \E i \in 1..Len(all_presets) : Replace(all_presets[i])

Randomize == \E rng \in RngStreams : Replace(randomize(rng))

SetOverride ==
    \E k \in Keys : \E v \in EditSamples(KeyType(k)) :
        Replace([config EXCEPT ![k] = Some(v)])

ClearOverride == \E k \in Keys : Replace([config EXCEPT ![k] = None])

SetDarkMode == Replace([config EXCEPT !.dark_mode = ~config.dark_mode])

SetName == \E n \in Names : Replace([config EXCEPT !.name = n])

SaveToFile ==
    \E io \in IoOutcomes :
        /\ ret' = [op |-> "save_to_file", out |-> save_to_file(io)]
        /\ file' = written_file(config, file, io)
        /\ fileFrom' = IF io = "ok" THEN Some(config)
                       ELSE IF io = "create_failed" THEN fileFrom
                       ELSE None
        /\ UNCHANGED <<config, ops, editor_state, ctx>>

LoadFromFile ==
    /\ ret' = [op |-> "load_from_file", out |-> load_from_file(file)]
    /\ UNCHANGED <<config, file, fileFrom, ops, editor_state, ctx>>

Next ==
    \/ UsePreset
    \/ Randomize
    \/ SetOverride
    \/ ClearOverride
    \/ SetDarkMode
    \/ SetName
    \/ SaveToFile
    \/ LoadFromFile

Spec == Init /\ [][Next]_vars

(***************************************************************************)
(* SpecLoad: load_from_file applied to a file of any content.              *)
(***************************************************************************)
JsonSamples ==
    { JsonNull, <<"bool", TRUE>>, <<"int", 1>>, <<"int", 256>>, <<"int", 0 - 1>>,
      <<"float", 15>>, <<"string", "red">>,
      JsonColor(<<10, 20, 30, 255>>),
      <<"array", << <<"int", 10>>, <<"int", 20>>, <<"int", 30>> >> >>,
      <<"array", << <<"int", 10>>, <<"int", 20>>, <<"int", 30>>, <<"int", 255>>, <<"int", 0>> >> >>,
      <<"array", << <<"int", 10>>, <<"int", 20>>, <<"int", 300>>, <<"int", 255>> >> >>,
      <<"array", << <<"int", 10>>, <<"float", 205>>, <<"int", 30>>, <<"int", 255>> >> >>,
      <<"array", << <<"int", 10>>, <<"string", "20">>, <<"int", 30>>, <<"int", 255>> >> >> }

UnknownKeys == {"version", "override_shadow_color"}

NotNull(member) == member[2] # JsonNull

\* the document of self with the members of the unset overrides left out
SparseDoc(self) == <<"object", SelectSeq(Serialize(self)[2], NotNull)>>

WithMember(doc, at, member) ==
    <<"object", SubSeq(doc[2], 1, at) \o <<member>> \o SubSeq(doc[2], at + 1, Len(doc[2]))>>

Without(doc, key) ==
    LET Other(member) == member[1] # key IN <<"object", SelectSeq(doc[2], Other)>>

Replaced(doc, i, jv) == <<"object", [doc[2] EXCEPT ![i] = <<doc[2][i][1], jv>>]>>

DocConfigs ==
    Range(all_presets)
    \cup UNION {{Single(FALSE, k, v) : v \in ValuesOf(KeyType(k))} : k \in Keys}
    \cup {AllSet(TRUE, 1), AllSet(FALSE, 2)}
    \cup {randomize(rng) : rng \in {r \in RngStreams : r.dark /\ r.bytes[1] = 54}}

\* Documents derived from the sparse document d: d itself, d with a member
\* of an unknown key in front or at the end, d without a required member, d
\* with the value of one member replaced, d with one member repeated.
Variants(d) ==
    {d}
    \cup {WithMember(d, at, <<u, jv>>) : at \in {0, Len(d[2])}, u \in UnknownKeys, jv \in JsonSamples}
    \cup {Without(d, f) : f \in {"name", "dark_mode"}}
    \cup {Replaced(d, i, jv) : i \in 1..Len(d[2]), jv \in JsonSamples}
    \cup {WithMember(d, Len(d[2]), d[2][i]) : i \in 1..Len(d[2])}

OtherDocs ==
    { NoFile, <<"not_utf8", <<>>>>, <<"malformed", <<>>>>, <<"string", "Dark">>,
      <<"array", <<>>>>,
      <<"array", Serialize(AllSet(FALSE, 1))[2]>> }
    \cup {<<"array", [i \in 1..Len(FieldOrder) |-> Serialize(c)[2][i][2]]>> : c \in Range(all_presets)}

InitLoad ==
    /\ \/ file \in OtherDocs
       \/ \E c \in DocConfigs : file \in {Serialize(c)} \cup Variants(SparseDoc(c))
    /\ config = Default
    /\ fileFrom = None
    /\ ret = NoResult
    /\ ops = 0
    /\ editor_state = NoEditor
    /\ ctx = NoContext

SpecLoad == InitLoad /\ [][LoadFromFile]_vars

(***************************************************************************)
(* Properties of save_to_file and load_from_file.                          *)
(***************************************************************************)
Members(doc) == doc[2]

MemberKeys(doc) == {Members(doc)[i][1] : i \in 1..Len(Members(doc))}

ValueAt(doc, key) ==
    Members(doc)[CHOOSE i \in 1..Len(Members(doc)) : Members(doc)[i][1] = key][2]

Occurrences(doc, key) ==
    Cardinality({i \in 1..Len(Members(doc)) : Members(doc)[i][1] = key})

\* The file format: the JSON values a field of the given name may hold.
\* An override may also hold null, which serde reads as None.
HasType(f, jv) ==
    IF f = "name" THEN jv[1] = "string"
    ELSE IF f = "dark_mode" THEN jv[1] = "bool"
    ELSE IF jv = JsonNull THEN TRUE
    ELSE IF KeyType(f) = "color"
         THEN /\ jv[1] = "array"
              /\ Len(jv[2]) = 4
              /\ \A i \in 1..4 : jv[2][i][1] = "int" /\ jv[2][i][2] \in 0..255
    ELSE IF KeyType(f) = "f32" THEN jv[1] \in {"int", "float"}
    ELSE IF KeyType(f) = "u8" THEN jv[1] = "int" /\ jv[2] \in 0..255
    ELSE jv[1] = "bool"

\* The JSON value jv is the value v of an override of key k.
Denotes(k, jv, v) ==
    IF KeyType(k) = "color" THEN jv = JsonColor(v)
    ELSE IF KeyType(k) = "f32"
         THEN (jv[1] = "float" /\ jv[2] = v) \/ (jv[1] = "int" /\ 10 * jv[2] = v)
    ELSE IF KeyType(k) = "u8" THEN jv = <<"int", v>>
    ELSE jv = <<"bool", v>>

\* C5 Save omits unset overrides: the document written by save_to_file has
\* one member for name, one for dark_mode and one per override that is Some,
\* and no member at all for an override that is None.
SaveOmitsUnset ==
    (ret.op = "save_to_file" /\ ret.out[1] = "Ok") =>
        /\ MemberKeys(file) = {"name", "dark_mode"} \cup SetKeys(config)
        /\ Len(Members(file)) = Cardinality(MemberKeys(file))

\* C6 Round-trip: load_from_file on the file that save_to_file wrote for a
\* configuration x (the default, a preset, a randomized or an edited one)
\* succeeds and returns x, field for field.
RoundTrip ==
    (ret.op = "load_from_file" /\ is_some(fileFrom)) => ret.out = Ok(unwrap(fileFrom))

RoundTripWitness ==
    /\ ret.op = "load_from_file"
    /\ is_some(fileFrom)
    /\ unwrap(fileFrom).override_window_stroke_width = Some(15)
    /\ ret.out[1] = "Ok"
    /\ ret.out[2].override_window_stroke_width = Some(15)
    /\ ret.out[2].override_window_fill = None

\* A document that load_from_file has to reject: text that is not JSON, an
\* object without name or without dark_mode, or an object in which a known
\* key holds a value of the wrong type.
BadInput(doc) ==
    \/ doc[1] = "malformed"
    \/ /\ doc[1] = "object"
       /\ \/ "name" \notin MemberKeys(doc)
          \/ "dark_mode" \notin MemberKeys(doc)
          \/ \E i \in 1..Len(Members(doc)) :
                /\ Members(doc)[i][1] \in FieldNames
                /\ ~HasType(Members(doc)[i][1], Members(doc)[i][2])

\* C7 Load rejects bad input: load_from_file returns an error, and no
\* configuration, for malformed JSON, for a missing name or dark_mode, and
\* for a known key with a value of the wrong type.
LoadRejectsBadInput ==
    (ret.op = "load_from_file" /\ BadInput(file)) => ret.out[1] = "Err"

LoadRejectsBadInputWitness ==
    /\ ret.op = "load_from_file"
    /\ file[1] = "object"
    /\ {"name", "dark_mode", "override_window_fill"} \subseteq MemberKeys(file)
    /\ ValueAt(file, "override_window_fill")[1] = "array"
    /\ Len(ValueAt(file, "override_window_fill")[2]) = 5
    /\ ret.out = Err("invalid_length")

StripUnknown(doc) ==
    LET Known(member) == member[1] \in FieldNames IN <<"object", SelectSeq(Members(doc), Known)>>

\* An object with one well-typed member for name, one for dark_mode and at
\* most one for every override.
WellFormed(doc) ==
    /\ doc[1] = "object"
    /\ Occurrences(doc, "name") = 1
    /\ Occurrences(doc, "dark_mode") = 1
    /\ \A i \in 1..Len(Members(doc)) :
            Members(doc)[i][1] \in FieldNames =>
                /\ Occurrences(doc, Members(doc)[i][1]) = 1
                /\ HasType(Members(doc)[i][1], Members(doc)[i][2])

\* C8 Forward compatibility: members with unrecognised keys are ignored: the
\* result is the result for the document without them, and it is a success
\* when the recognised members are well formed.
ForwardCompatible ==
    (ret.op = "load_from_file" /\ file[1] = "object" /\ StripUnknown(file) # file) =>
        /\ ret.out = load_from_file(StripUnknown(file))
        /\ WellFormed(StripUnknown(file)) => ret.out[1] = "Ok"

ForwardCompatibleWitness ==
    /\ ret.op = "load_from_file"
    /\ file[1] = "object"
    /\ "override_shadow_color" \in MemberKeys(file)
    /\ ValueAt(file, "override_shadow_color") = <<"string", "red">>
    /\ "override_window_fill" \in MemberKeys(file)
    /\ ret.out[1] = "Ok"
    /\ ret.out[2].override_window_fill = Some(<<10, 20, 30, 255>>)

\* A well-formed document of recognised members only, none of them null.
IsSparseDoc(doc) ==
    /\ WellFormed(doc)
    /\ MemberKeys(doc) \subseteq FieldNames
    /\ \A i \in 1..Len(Members(doc)) : Members(doc)[i][2] # JsonNull

\* C9 Load of a sparse document: a document with name, dark_mode and a subset
\* S of the override fields loads; the keys in S are Some with the values of
\* the document, every other override is None.
SparseLoad ==
    (ret.op = "load_from_file" /\ file[1] = "object" /\ IsSparseDoc(file)) =>
        /\ ret.out[1] = "Ok"
        /\ ret.out[2].name = ValueAt(file, "name")[2]
        /\ ret.out[2].dark_mode = ValueAt(file, "dark_mode")[2]
        /\ \A k \in Keys :
                IF k \in MemberKeys(file)
                THEN /\ is_some(ret.out[2][k])
                     /\ Denotes(k, ValueAt(file, k), unwrap(ret.out[2][k]))
                ELSE ret.out[2][k] = None

SparseLoadWitness ==
    /\ ret.op = "load_from_file"
    /\ file[1] = "object"
    /\ MemberKeys(file) = {"name", "dark_mode", "override_window_fill"}
    /\ Len(Members(file)) = 3
    /\ ValueAt(file, "override_window_fill") = JsonColor(<<10, 20, 30, 255>>)
    /\ ret.out[1] = "Ok"
    /\ SetKeys(ret.out[2]) = {"override_window_fill"}

(***************************************************************************)
(* src/src/lib.rs: the self-contained variant of the crate.  Its           *)
(* ThemeConfig has the ten colour overrides below; its editor is           *)
(* render_theme_editor of lib.rs.                                          *)
(***************************************************************************)
LibKeyTable == <<
    <<"override_text_color", "color", "override_text_color", "some_color">>,
    <<"override_window_fill", "color", "window_fill", "color">>,
    <<"override_panel_fill", "color", "panel_fill", "color">>,
    <<"override_selection_bg", "color", "selection.bg_fill", "color">>,
    <<"override_hyperlink_color", "color", "hyperlink_color", "color">>,
    <<"override_faint_bg_color", "color", "faint_bg_color", "color">>,
    <<"override_extreme_bg_color", "color", "extreme_bg_color", "color">>,
    <<"override_code_bg_color", "color", "code_bg_color", "color">>,
    <<"override_warn_fg_color", "color", "warn_fg_color", "color">>,
    <<"override_error_fg_color", "color", "error_fg_color", "color">> >>

LibNumKeys == Len(LibKeyTable)

LibKeyOrder == [i \in 1..LibNumKeys |-> LibKeyTable[i][1]]

LibKeys == {LibKeyTable[i][1] : i \in 1..LibNumKeys}

LibFieldOrder == <<"name", "dark_mode">> \o LibKeyOrder

LibFieldNames == {"name", "dark_mode"} \cup LibKeys

LibKeyIndex(k) == CHOOSE i \in 1..LibNumKeys : LibKeyTable[i][1] = k

\* impl Default for ThemeConfig (lib.rs)
lib_Default ==
    [f \in LibFieldNames |->
        IF f = "name" THEN "Dark" ELSE IF f = "dark_mode" THEN TRUE ELSE None]

lib_dark_preset ==
    [lib_Default EXCEPT !.name = "Dark", !.dark_mode = TRUE]

lib_light_preset ==
    [lib_Default EXCEPT !.name = "Light", !.dark_mode = FALSE]

lib_dracula_preset ==
    [name |-> "Dracula", dark_mode |-> TRUE,
     override_text_color |-> Some(<<248, 248, 242, 255>>),
     override_window_fill |-> Some(<<40, 42, 54, 255>>),
     override_panel_fill |-> Some(<<68, 71, 90, 255>>),
     override_selection_bg |-> Some(<<98, 114, 164, 255>>),
     override_hyperlink_color |-> Some(<<139, 233, 253, 255>>),
     override_faint_bg_color |-> Some(<<68, 71, 90, 255>>),
     override_extreme_bg_color |-> Some(<<21, 22, 30, 255>>),
     override_code_bg_color |-> Some(<<68, 71, 90, 255>>),
     override_warn_fg_color |-> Some(<<241, 250, 140, 255>>),
     override_error_fg_color |-> Some(<<255, 85, 85, 255>>)]

lib_nord_preset ==
    [name |-> "Nord", dark_mode |-> TRUE,
     override_text_color |-> Some(<<216, 222, 233, 255>>),
     override_window_fill |-> Some(<<46, 52, 64, 255>>),
     override_panel_fill |-> Some(<<59, 66, 82, 255>>),
     override_selection_bg |-> Some(<<136, 192, 208, 255>>),
     override_hyperlink_color |-> Some(<<136, 192, 208, 255>>),
     override_faint_bg_color |-> Some(<<59, 66, 82, 255>>),
     override_extreme_bg_color |-> Some(<<29, 33, 42, 255>>),
     override_code_bg_color |-> Some(<<59, 66, 82, 255>>),
     override_warn_fg_color |-> Some(<<235, 203, 139, 255>>),
     override_error_fg_color |-> Some(<<191, 97, 106, 255>>)]

lib_gruvbox_dark_preset ==
    [name |-> "Gruvbox Dark", dark_mode |-> TRUE,
     override_text_color |-> Some(<<235, 219, 178, 255>>),
     override_window_fill |-> Some(<<40, 40, 40, 255>>),
     override_panel_fill |-> Some(<<60, 56, 54, 255>>),
     override_selection_bg |-> Some(<<102, 92, 84, 255>>),
     override_hyperlink_color |-> Some(<<131, 165, 152, 255>>),
     override_faint_bg_color |-> Some(<<60, 56, 54, 255>>),
     override_extreme_bg_color |-> Some(<<29, 32, 33, 255>>),
     override_code_bg_color |-> Some(<<60, 56, 54, 255>>),
     override_warn_fg_color |-> Some(<<250, 189, 47, 255>>),
     override_error_fg_color |-> Some(<<251, 73, 52, 255>>)]

lib_solarized_dark_preset ==
    [name |-> "Solarized Dark", dark_mode |-> TRUE,
     override_text_color |-> Some(<<131, 148, 150, 255>>),
     override_window_fill |-> Some(<<0, 43, 54, 255>>),
     override_panel_fill |-> Some(<<7, 54, 66, 255>>),
     override_selection_bg |-> Some(<<88, 110, 117, 255>>),
     override_hyperlink_color |-> Some(<<42, 161, 152, 255>>),
     override_faint_bg_color |-> Some(<<7, 54, 66, 255>>),
     override_extreme_bg_color |-> Some(<<0, 30, 38, 255>>),
     override_code_bg_color |-> Some(<<7, 54, 66, 255>>),
     override_warn_fg_color |-> Some(<<181, 137, 0, 255>>),
     override_error_fg_color |-> Some(<<220, 50, 47, 255>>)]

lib_solarized_light_preset ==
    [name |-> "Solarized Light", dark_mode |-> FALSE,
     override_text_color |-> Some(<<101, 123, 131, 255>>),
     override_window_fill |-> Some(<<253, 246, 227, 255>>),
     override_panel_fill |-> Some(<<238, 232, 213, 255>>),
     override_selection_bg |-> Some(<<147, 161, 161, 255>>),
     override_hyperlink_color |-> Some(<<38, 139, 210, 255>>),
     override_faint_bg_color |-> Some(<<238, 232, 213, 255>>),
     override_extreme_bg_color |-> Some(<<253, 246, 227, 255>>),
     override_code_bg_color |-> Some(<<238, 232, 213, 255>>),
     override_warn_fg_color |-> Some(<<181, 137, 0, 255>>),
     override_error_fg_color |-> Some(<<220, 50, 47, 255>>)]

lib_monokai_preset ==
    [name |-> "Monokai", dark_mode |-> TRUE,
     override_text_color |-> Some(<<248, 248, 242, 255>>),
     override_window_fill |-> Some(<<39, 40, 34, 255>>),
     override_panel_fill |-> Some(<<73, 72, 62, 255>>),
     override_selection_bg |-> Some(<<73, 72, 62, 255>>),
     override_hyperlink_color |-> Some(<<102, 217, 239, 255>>),
     override_faint_bg_color |-> Some(<<73, 72, 62, 255>>),
     override_extreme_bg_color |-> Some(<<30, 31, 25, 255>>),
     override_code_bg_color |-> Some(<<73, 72, 62, 255>>),
     override_warn_fg_color |-> Some(<<230, 219, 116, 255>>),
     override_error_fg_color |-> Some(<<249, 38, 114, 255>>)]

lib_one_dark_preset ==
    [name |-> "One Dark", dark_mode |-> TRUE,
     override_text_color |-> Some(<<171, 178, 191, 255>>),
     override_window_fill |-> Some(<<40, 44, 52, 255>>),
     override_panel_fill |-> Some(<<33, 37, 43, 255>>),
     override_selection_bg |-> Some(<<61, 66, 77, 255>>),
     override_hyperlink_color |-> Some(<<97, 175, 239, 255>>),
     override_faint_bg_color |-> Some(<<33, 37, 43, 255>>),
     override_extreme_bg_color |-> Some(<<21, 23, 27, 255>>),
     override_code_bg_color |-> Some(<<33, 37, 43, 255>>),
     override_warn_fg_color |-> Some(<<229, 192, 123, 255>>),
     override_error_fg_color |-> Some(<<224, 108, 117, 255>>)]

lib_tokyo_night_preset ==
    [name |-> "Tokyo Night", dark_mode |-> TRUE,
     override_text_color |-> Some(<<192, 202, 245, 255>>),
     override_window_fill |-> Some(<<26, 27, 38, 255>>),
     override_panel_fill |-> Some(<<36, 40, 59, 255>>),
     override_selection_bg |-> Some(<<56, 62, 90, 255>>),
     override_hyperlink_color |-> Some(<<122, 162, 247, 255>>),
     override_faint_bg_color |-> Some(<<36, 40, 59, 255>>),
     override_extreme_bg_color |-> Some(<<16, 17, 28, 255>>),
     override_code_bg_color |-> Some(<<36, 40, 59, 255>>),
     override_warn_fg_color |-> Some(<<224, 175, 104, 255>>),
     override_error_fg_color |-> Some(<<247, 118, 142, 255>>)]

lib_catppuccin_mocha_preset ==
    [name |-> "Catppuccin Mocha", dark_mode |-> TRUE,
     override_text_color |-> Some(<<205, 214, 244, 255>>),
     override_window_fill |-> Some(<<30, 30, 46, 255>>),
     override_panel_fill |-> Some(<<49, 50, 68, 255>>),
     override_selection_bg |-> Some(<<88, 91, 112, 255>>),
     override_hyperlink_color |-> Some(<<137, 180, 250, 255>>),
     override_faint_bg_color |-> Some(<<49, 50, 68, 255>>),
     override_extreme_bg_color |-> Some(<<17, 17, 27, 255>>),
     override_code_bg_color |-> Some(<<49, 50, 68, 255>>),
     override_warn_fg_color |-> Some(<<249, 226, 175, 255>>),
     override_error_fg_color |-> Some(<<243, 139, 168, 255>>)]

lib_all_presets_light_first ==
    << lib_light_preset, lib_dark_preset, lib_dracula_preset, lib_nord_preset,
       lib_gruvbox_dark_preset, lib_solarized_dark_preset, lib_solarized_light_preset,
       lib_monokai_preset, lib_one_dark_preset, lib_tokyo_night_preset,
       lib_catppuccin_mocha_preset >>

lib_all_presets ==
    << lib_dark_preset,
       lib_light_preset,
       lib_dracula_preset,
       lib_nord_preset,
       lib_gruvbox_dark_preset,
       lib_solarized_dark_preset,
       lib_solarized_light_preset,
       lib_monokai_preset,
       lib_one_dark_preset,
       lib_tokyo_night_preset,
       lib_catppuccin_mocha_preset >>

\* The right-hand side of one assignment of to_visuals (lib.rs).
lib_Convert(i, value) ==
    IF LibKeyTable[i][4] = "some_color"
    THEN <<"Some", from_rgba_unmultiplied(value)>>
    ELSE from_rgba_unmultiplied(value)

\* One `if let Some(color) = self.override_.. { .. }` block of lib.rs.
lib_ApplyOverride(visuals, self, i) ==
    LET k == LibKeyTable[i][1] IN
    IF is_some(self[k])
    THEN [visuals EXCEPT ![LibKeyTable[i][3]] = lib_Convert(i, unwrap(self[k]))]
    ELSE visuals

RECURSIVE lib_ApplySeq(_, _, _)
lib_ApplySeq(visuals, self, order) ==
    IF order = <<>> \/ DOMAIN visuals = {} THEN visuals
    ELSE lib_ApplySeq(lib_ApplyOverride(visuals, self, Head(order)), self, Tail(order))

\* ThemeConfig::to_visuals (lib.rs)
lib_to_visuals(self) ==
    lib_ApplySeq(BaseVisuals(self.dark_mode), self, [i \in 1..LibNumKeys |-> i])

\* ThemeConfig::randomize (lib.rs)
lib_randomize(rng) ==
    [f \in LibFieldNames |->
        IF f = "name" THEN "Random"
        ELSE IF f = "dark_mode" THEN rng.dark
        ELSE Some(random_color(rng, LibKeyIndex(f)))]

(***************************************************************************)
(* serde for the ThemeConfig of lib.rs, save_to_file and load_from_file.   *)
(***************************************************************************)
\* Serialize for one field (lib.rs)
lib_to_json(f, value) ==
    IF f = "name" THEN <<"string", value>>
    ELSE IF f = "dark_mode" THEN <<"bool", value>>
    ELSE IF value = None THEN JsonNull
    ELSE JsonColor(unwrap(value))

lib_Serialize(self) ==
    <<"object", [i \in 1..Len(LibFieldOrder) |->
                    <<LibFieldOrder[i], lib_to_json(LibFieldOrder[i], self[LibFieldOrder[i]])>>]>>

\* Deserialize for one field (lib.rs)
lib_deserialize_field(f, jv) ==
    IF f = "name" THEN deserialize_value("string", jv)
    ELSE IF f = "dark_mode" THEN deserialize_value("bool", jv)
    ELSE IF jv = JsonNull THEN Ok(None)
    ELSE LET r == deserialize_value("color", jv) IN
         IF r[1] = "Ok" THEN Ok(Some(r[2])) ELSE r

lib_NoFields == [f \in LibFieldNames |-> <<>>]

lib_visit_member(fields, member) ==
    LET key == member[1] IN
    IF key \notin LibFieldNames THEN fields
    ELSE IF fields[2][key] # <<>> THEN Err("duplicate_field")
    ELSE LET r == lib_deserialize_field(key, member[2]) IN
         IF r[1] = "Ok" THEN Ok([fields[2] EXCEPT ![key] = <<r[2]>>]) ELSE r

RECURSIVE lib_visit_map(_, _)
lib_visit_map(fields, members) ==
    IF fields[1] = "Err" \/ members = <<>> THEN fields
    ELSE lib_visit_map(lib_visit_member(fields, Head(members)), Tail(members))

lib_build(fields) ==
    IF fields[1] = "Err" THEN fields
    ELSE IF fields[2]["name"] = <<>> \/ fields[2]["dark_mode"] = <<>> THEN Err("missing_field")
    ELSE Ok([f \in LibFieldNames |->
                IF fields[2][f] # <<>> THEN fields[2][f][1] ELSE None])

lib_visit_seq(elements) ==
    LET n == Len(elements)
        m == IF n < Len(LibFieldOrder) THEN n ELSE Len(LibFieldOrder)
        bad == {i \in 1..m : lib_deserialize_field(LibFieldOrder[i], elements[i])[1] = "Err"}
    IN  IF bad # {}
        THEN lib_deserialize_field(LibFieldOrder[CHOOSE i \in bad : \A j \in bad : i <= j],
                                   elements[CHOOSE i \in bad : \A j \in bad : i <= j])
        ELSE IF n # Len(LibFieldOrder) THEN Err("invalid_length")
        ELSE Ok([f \in LibFieldNames |->
                    lib_deserialize_field(f, elements[CHOOSE i \in 1..n : LibFieldOrder[i] = f])[2]])

\* serde_json::from_str::<ThemeConfig> (lib.rs)
lib_Deserialize(json) ==
    IF json[1] = "malformed" THEN Err("syntax")
    ELSE IF json[1] = "object" THEN lib_build(lib_visit_map(Ok(lib_NoFields), json[2]))
    ELSE IF json[1] = "array" THEN lib_visit_seq(json[2])
    ELSE Err("invalid_type")

\* ThemeConfig::load_from_file (lib.rs)
lib_load_from_file(content) ==
    IF content = NoFile \/ content[1] = "not_utf8" THEN Err("io")
    ELSE lib_Deserialize(content)

\* The content of the file after ThemeConfig::save_to_file (lib.rs)
lib_written_file(self, old, io) ==
    IF io = "ok" THEN lib_Serialize(self)
    ELSE IF io = "create_failed" THEN old
    ELSE <<"malformed", <<>>>>

\* ThemeConfig::save_to_file (lib.rs)
lib_save_to_file(io) == IF io = "ok" THEN Ok(<<>>) ELSE Err("io")


\* ThemeConfig::to_rust_code (lib.rs): the generated text, line by line.
lib_CodeTable == <<
    <<"override_text_color", "override_text_color", TRUE>>,
    <<"override_window_fill", "window_fill", FALSE>>,
    <<"override_panel_fill", "panel_fill", FALSE>>,
    <<"override_selection_bg", "selection.bg_fill", FALSE>>,
    <<"override_hyperlink_color", "hyperlink_color", FALSE>>,
    <<"override_faint_bg_color", "faint_bg_color", FALSE>>,
    <<"override_extreme_bg_color", "extreme_bg_color", FALSE>>,
    <<"override_code_bg_color", "code_bg_color", FALSE>>,
    <<"override_warn_fg_color", "warn_fg_color", FALSE>>,
    <<"override_error_fg_color", "error_fg_color", FALSE>> >>

lib_CodeHeader(self) ==
    << <<"text", "fn apply_theme(ctx: &egui::Context) {", <<>>>>,
       <<"base", "let mut visuals = if {} { dark } else { light };", <<self.dark_mode>>>> >>

lib_CodeFooter ==
    << <<"text", "ctx.set_visuals(visuals);", <<>>>>,
       <<"text", "}", <<>>>> >>

lib_AssignLine(row, color) ==
    <<IF row[3] THEN "assign_some" ELSE "assign", row[2], color>>

RECURSIVE lib_CodeLines(_, _)
lib_CodeLines(self, i) ==
    IF i > Len(lib_CodeTable) THEN <<>>
    ELSE LET row == lib_CodeTable[i] IN
         (IF is_some(self[row[1]])
          THEN <<lib_AssignLine(row, unwrap(self[row[1]]))>>
          ELSE <<>>) \o lib_CodeLines(self, i + 1)

lib_to_rust_code_no_mode(self) ==
    <<lib_CodeHeader(self)[1]>> \o lib_CodeLines(self, 1) \o lib_CodeFooter

lib_to_rust_code(self) == lib_CodeHeader(self) \o lib_CodeLines(self, 1) \o lib_CodeFooter

(***************************************************************************)
(* ThemeEditorState of lib.rs.  A temp_* buffer holds a Color32; the table *)
(* gives, for each buffer, the override its picker writes and the          *)
(* expression over Visuals that reset_temp_colors assigns to it.           *)
(***************************************************************************)
\* egui::Visuals::text_color
text_color(visuals) ==
    IF visuals["override_text_color"][1] = "Some"
    THEN visuals["override_text_color"][2]
    ELSE visuals["widgets.noninteractive.fg_stroke.color"]

\* visuals.weak_text_color.unwrap_or(visuals.text_color())
weak_text_color_or(visuals) ==
    IF visuals["weak_text_color"][1] = "Some"
    THEN visuals["weak_text_color"][2]
    ELSE text_color(visuals)

\* The value of the expression a buffer is assigned from.
TempValue(visuals, expr) ==
    IF expr = "text_color()" THEN text_color(visuals)
    ELSE IF expr = "weak_text_color.unwrap_or(text_color())" THEN weak_text_color_or(visuals)
    ELSE visuals[expr]

\* Color32::to_array: the stored (premultiplied) bytes
to_array(color) == color[2]

LibTempTable == <<
    <<"temp_text_color", "override_text_color", "text_color()">>,
    <<"temp_window_fill", "override_window_fill", "window_fill">>,
    <<"temp_panel_fill", "override_panel_fill", "panel_fill">>,
    <<"temp_selection_bg", "override_selection_bg", "selection.bg_fill">>,
    <<"temp_hyperlink_color", "override_hyperlink_color", "hyperlink_color">>,
    <<"temp_faint_bg_color", "override_faint_bg_color", "faint_bg_color">>,
    <<"temp_extreme_bg_color", "override_extreme_bg_color", "extreme_bg_color">>,
    <<"temp_code_bg_color", "override_code_bg_color", "code_bg_color">>,
    <<"temp_warn_fg_color", "override_warn_fg_color", "warn_fg_color">>,
    <<"temp_error_fg_color", "override_error_fg_color", "error_fg_color">> >>

LibTempNames == {LibTempTable[i][1] : i \in 1..Len(LibTempTable)}

LibTempOf(k) == LibTempTable[CHOOSE i \in 1..Len(LibTempTable) : LibTempTable[i][2] = k][1]

LibTempExpr(t) == LibTempTable[CHOOSE i \in 1..Len(LibTempTable) : LibTempTable[i][1] = t][3]

\* The fields of ThemeEditorState that are not buffers, as constructed by
\* Default, around the given catalog.
StateFields(presets) ==
    [current_config |-> presets[1],
     presets |-> presets,
     selected_preset_index |-> Some(0),
     show_code_export |-> FALSE,
     storybook_checkbox |-> TRUE,
     storybook_radio |-> 1,
     storybook_slider |-> 500,
     storybook_text |-> "Example text",
     storybook_combo_selected |-> 0]

\* impl Default for ThemeEditorState (lib.rs)
lib_ThemeEditorState_default ==
    LET visuals == BaseVisuals(TRUE) IN
    [f \in DOMAIN StateFields(lib_all_presets) \cup LibTempNames |->
        IF f \in LibTempNames THEN TempValue(visuals, LibTempExpr(f))
        ELSE StateFields(lib_all_presets)[f]]

\* ThemeEditorState::reset_temp_colors (lib.rs)
lib_reset_temp_colors(self) ==
    LET visuals == BaseVisuals(self.current_config.dark_mode) IN
    [f \in DOMAIN self |->
        IF f \in LibTempNames THEN TempValue(visuals, LibTempExpr(f)) ELSE self[f]]

(***************************************************************************)
(* SpecLibEditor: a session of the editor of lib.rs.  One step is one call *)
(* of render_theme_editor (or of the demo application's button row) in     *)
(* which the user triggers one widget; ret names the widget.  ctx is the   *)
(* egui::Context: the Visuals installed in it and the collapsing headers   *)
(* that are open.  file is the content of the file the dialogs pick.       *)
(***************************************************************************)
\* Number of user events explored in one editor session.
MaxEvents == 2

\* Colours a picker delivers (Color32, premultiplied).
PickedColors == { <<"Color32", <<255, 0, 0, 255>>>>, <<"Color32", <<100, 50, 25, 128>>>> }

\* The collapsing headers around the controls of the editor of lib.rs.
LibHeaders == {"Preview", "General", "Colors"}

LibFileInputs ==
    { NoFile,
      <<"malformed", <<>>>>,
      <<"object", << <<"name", <<"string", "Mine">>>>,
                     <<"dark_mode", <<"bool", FALSE>>>>,
                     <<"override_panel_fill", JsonColor(<<1, 2, 3, 255>>)>> >>>>,
      <<"object", << <<"name", <<"string", "Mine">>>>,
                     <<"dark_mode", <<"bool", FALSE>>>>,
                     <<"override_panel_fill", <<"string", "red">>>> >>>> }

InitLibEditor ==
    /\ editor_state = lib_ThemeEditorState_default
    /\ \E dark \in BOOLEAN : ctx = [visuals |-> BaseVisuals(dark), open |-> LibHeaders]
    /\ file \in LibFileInputs
    /\ config = Default
    /\ fileFrom = None
    /\ ret = NoResult
    /\ ops = 0

LibEvent(new_state, new_visuals, op, out) ==
    /\ ops < MaxEvents
    /\ ops' = ops + 1
    /\ editor_state' = new_state
    /\ ctx' = [ctx EXCEPT !.visuals = new_visuals]
    /\ ret' = [op |-> op, out |-> out]
    /\ UNCHANGED <<config, fileFrom>>

lib_changed_keeps_index(self) == self

\* The tail of render_theme_editor when `changed` is set.
lib_changed(self) == [self EXCEPT !.selected_preset_index = None]

\* render_theme_panel: the visuals are installed before the editor is shown
LibRenderThemePanel ==
    /\ ctx' = [ctx EXCEPT !.visuals = lib_to_visuals(editor_state.current_config)]
    /\ UNCHANGED <<editor_state, config, file, fileFrom, ret, ops>>

LibSelectPreset_keeps_overrides ==
    \E index \in 0..(Len(editor_state.presets) - 1) :
        LET preset == editor_state.presets[index + 1]
            merged == [f \in DOMAIN preset |->
                          IF f \in LibKeys /\ preset[f] = None THEN editor_state.current_config[f]
                          ELSE preset[f]]
            clicked == [editor_state EXCEPT !.selected_preset_index = Some(index),
                                            !.current_config = merged]
        IN  /\ LibEvent(lib_reset_temp_colors(clicked), lib_to_visuals(merged),
                        "select_preset", index)
            /\ UNCHANGED file

LibSelectPreset ==
    \E index \in 0..(Len(editor_state.presets) - 1) :
        LET preset == editor_state.presets[index + 1]
            clicked == [editor_state EXCEPT !.selected_preset_index = Some(index),
                                            !.current_config = preset]
        IN  /\ LibEvent(lib_reset_temp_colors(clicked), lib_to_visuals(preset),
                        "select_preset", index)
            /\ UNCHANGED file

LibSaveTheme ==
    \E io \in IoOutcomes \cup {"cancelled"} :
        /\ LibEvent(editor_state, ctx.visuals, "save_theme",
                    IF io = "cancelled" THEN None ELSE Some(lib_save_to_file(io)))
        /\ file' = IF io = "cancelled" THEN file
                   ELSE lib_written_file(editor_state.current_config, file, io)

LibLoadTheme_default_on_error ==
    \E picked \in BOOLEAN :
        LET r == lib_load_from_file(file)
            config_or_default == IF r[1] = "Ok" THEN r[2] ELSE lib_Default
            loaded == [editor_state EXCEPT !.current_config = config_or_default]
        IN  /\ IF picked
               THEN LibEvent([lib_reset_temp_colors(loaded) EXCEPT !.selected_preset_index = None],
                             lib_to_visuals(config_or_default), "load_theme", Some(r))
               ELSE LibEvent(editor_state, ctx.visuals, "load_theme", None)
            /\ UNCHANGED file

LibLoadTheme ==
    \E picked \in BOOLEAN :
        LET r == lib_load_from_file(file)
            loaded == [editor_state EXCEPT !.current_config = r[2]]
        IN  /\ IF picked /\ r[1] = "Ok"
               THEN LibEvent([lib_reset_temp_colors(loaded) EXCEPT !.selected_preset_index = None],
                             lib_to_visuals(r[2]), "load_theme", Some(r))
               ELSE LibEvent(editor_state, ctx.visuals, "load_theme",
                             IF picked THEN Some(r) ELSE None)
            /\ UNCHANGED file

LibResetToDark ==
    LET s == [editor_state EXCEPT !.current_config = lib_dark_preset] IN
    /\ LibEvent([lib_reset_temp_colors(s) EXCEPT !.selected_preset_index = Some(0)],
                BaseVisuals(TRUE), "reset_to_dark", <<>>)
    /\ UNCHANGED file

LibResetToLight ==
    LET s == [editor_state EXCEPT !.current_config = lib_light_preset] IN
    /\ LibEvent([lib_reset_temp_colors(s) EXCEPT !.selected_preset_index = Some(1)],
                BaseVisuals(FALSE), "reset_to_light", <<>>)
    /\ UNCHANGED file

LibRandomize ==
    \E rng \in RngStreams :
        LET s == [editor_state EXCEPT !.current_config = lib_randomize(rng)] IN
        /\ LibEvent([lib_reset_temp_colors(s) EXCEPT !.selected_preset_index = None],
                    lib_to_visuals(s.current_config), "randomize", <<>>)
        /\ UNCHANGED file

LibExportCode ==
    /\ LibEvent([editor_state EXCEPT !.show_code_export = TRUE], ctx.visuals, "export_code", <<>>)
    /\ UNCHANGED file

\* The close button of the "Generated Rust Code" window.
LibCloseExport ==
    /\ editor_state.show_code_export
    /\ LibEvent([editor_state EXCEPT !.show_code_export = FALSE], ctx.visuals, "close_export", <<>>)
    /\ UNCHANGED file

LibToggleDarkMode_resets_overrides ==
    LET s == [editor_state EXCEPT
                 !.current_config = [lib_Default EXCEPT
                                        !.name = editor_state.current_config.name,
                                        !.dark_mode = ~editor_state.current_config.dark_mode]] IN
    /\ "General" \in ctx.open
    /\ LibEvent(lib_changed(lib_reset_temp_colors(s)), lib_to_visuals(s.current_config),
                "dark_mode", <<>>)
    /\ UNCHANGED file

LibToggleDarkMode ==
    LET s == [editor_state EXCEPT !.current_config.dark_mode = ~@] IN
    /\ "General" \in ctx.open
    /\ LibEvent(lib_changed(lib_reset_temp_colors(s)), lib_to_visuals(s.current_config),
                "dark_mode", <<>>)
    /\ UNCHANGED file

LibPickerChanged ==
    \E k \in LibKeys : \E c \in PickedColors :
        LET s == [editor_state EXCEPT ![LibTempOf(k)] = c,
                                      !.current_config[k] = Some(to_array(c))]
        IN  /\ "Colors" \in ctx.open
            /\ LibEvent(lib_changed(s), lib_to_visuals(s.current_config), "picker", k)
            /\ UNCHANGED file

LibFieldReset ==
    \E k \in LibKeys :
        LET s == [editor_state EXCEPT !.current_config[k] = None] IN
        /\ "Colors" \in ctx.open
        /\ LibEvent(lib_changed(lib_reset_temp_colors(s)), lib_to_visuals(s.current_config),
                    "field_reset", k)
        /\ UNCHANGED file

\* The buttons of the demo application (demo/src/app.rs).
LibDemoDarkPreset ==
    LET s == [editor_state EXCEPT !.current_config = lib_dark_preset] IN
    /\ LibEvent([lib_reset_temp_colors(s) EXCEPT !.selected_preset_index = Some(0)],
                ctx.visuals, "demo_dark_preset", <<>>)
    /\ UNCHANGED file

LibDemoLightPreset ==
    LET s == [editor_state EXCEPT !.current_config = lib_light_preset] IN
    /\ LibEvent([lib_reset_temp_colors(s) EXCEPT !.selected_preset_index = Some(1)],
                ctx.visuals, "demo_light_preset", <<>>)
    /\ UNCHANGED file

LibDemoRandomize ==
    \E rng \in RngStreams :
        LET s == [editor_state EXCEPT !.current_config = lib_randomize(rng)] IN
        /\ LibEvent([lib_reset_temp_colors(s) EXCEPT !.selected_preset_index = None],
                    ctx.visuals, "demo_randomize", <<>>)
        /\ UNCHANGED file

NextLibEditor ==
    \/ LibRenderThemePanel
    \/ LibSelectPreset
    \/ LibSaveTheme
    \/ LibLoadTheme
    \/ LibResetToDark
    \/ LibResetToLight
    \/ LibRandomize
    \/ LibExportCode
    \/ LibCloseExport
    \/ LibToggleDarkMode
    \/ LibPickerChanged
    \/ LibFieldReset
    \/ LibDemoDarkPreset
    \/ LibDemoLightPreset
    \/ LibDemoRandomize

SpecLibEditor == InitLibEditor /\ [][NextLibEditor]_vars

(***************************************************************************)
(* ThemeEditorState of state.rs and the editor of ui.rs.  UiTempTable      *)
(* gives each temp_* buffer and the expression over Visuals it is assigned *)
(* from.  UiControls lists the controls of the sections of                 *)
(* render_theme_editor in the order they are drawn:                        *)
(*   <<"picker", keys, <<buffer>>, enclosing collapsing headers>>          *)
(*   <<"slider_f32" | "slider_u8", keys, <<default, low, high>>, headers>> *)
(*   <<"checkbox", keys, <<default>>, headers>>                            *)
(***************************************************************************)
UiTempTable == <<
    <<"temp_text_color", "text_color()">>,
    <<"temp_weak_text_color", "weak_text_color.unwrap_or(text_color())">>,
    <<"temp_hyperlink_color", "hyperlink_color">>,
    <<"temp_faint_bg_color", "faint_bg_color">>,
    <<"temp_extreme_bg_color", "extreme_bg_color">>,
    <<"temp_code_bg_color", "code_bg_color">>,
    <<"temp_warn_fg_color", "warn_fg_color">>,
    <<"temp_error_fg_color", "error_fg_color">>,
    <<"temp_window_fill", "window_fill">>,
    <<"temp_window_stroke_color", "window_stroke.color">>,
    <<"temp_panel_fill", "panel_fill">>,
    <<"temp_selection_bg", "selection.bg_fill">>,
    <<"temp_selection_stroke_color", "selection.stroke.color">>,
    <<"temp_widget_noninteractive_bg_fill", "widgets.noninteractive.bg_fill">>,
    <<"temp_widget_noninteractive_weak_bg_fill", "widgets.noninteractive.weak_bg_fill">>,
    <<"temp_widget_noninteractive_bg_stroke_color", "widgets.noninteractive.bg_stroke.color">>,
    <<"temp_widget_noninteractive_fg_stroke_color", "widgets.noninteractive.fg_stroke.color">>,
    <<"temp_widget_inactive_bg_fill", "widgets.inactive.bg_fill">>,
    <<"temp_widget_inactive_weak_bg_fill", "widgets.inactive.weak_bg_fill">>,
    <<"temp_widget_inactive_bg_stroke_color", "widgets.inactive.bg_stroke.color">>,
    <<"temp_widget_inactive_fg_stroke_color", "widgets.inactive.fg_stroke.color">>,
    <<"temp_widget_hovered_bg_fill", "widgets.hovered.bg_fill">>,
    <<"temp_widget_hovered_weak_bg_fill", "widgets.hovered.weak_bg_fill">>,
    <<"temp_widget_hovered_bg_stroke_color", "widgets.hovered.bg_stroke.color">>,
    <<"temp_widget_hovered_fg_stroke_color", "widgets.hovered.fg_stroke.color">>,
    <<"temp_widget_active_bg_fill", "widgets.active.bg_fill">>,
    <<"temp_widget_active_weak_bg_fill", "widgets.active.weak_bg_fill">>,
    <<"temp_widget_active_bg_stroke_color", "widgets.active.bg_stroke.color">>,
    <<"temp_widget_active_fg_stroke_color", "widgets.active.fg_stroke.color">>,
    <<"temp_widget_open_bg_fill", "widgets.open.bg_fill">>,
    <<"temp_widget_open_weak_bg_fill", "widgets.open.weak_bg_fill">>,
    <<"temp_widget_open_bg_stroke_color", "widgets.open.bg_stroke.color">>,
    <<"temp_widget_open_fg_stroke_color", "widgets.open.fg_stroke.color">> >>

UiControls == <<
    <<"picker", <<"override_text_color">>, <<"temp_text_color">>, <<>>>>,
    <<"picker", <<"override_weak_text_color">>, <<"temp_weak_text_color">>, <<>>>>,
    <<"picker", <<"override_hyperlink_color">>, <<"temp_hyperlink_color">>, <<>>>>,
    <<"picker", <<"override_widget_inactive_bg_fill">>, <<"temp_widget_inactive_bg_fill">>, <<"Inactive (Resting)">>>>,
    <<"picker", <<"override_widget_inactive_bg_stroke_color">>, <<"temp_widget_inactive_bg_stroke_color">>, <<"Inactive (Resting)">>>>,
    <<"picker", <<"override_widget_hovered_bg_fill">>, <<"temp_widget_hovered_bg_fill">>, <<"Hovered">>>>,
    <<"picker", <<"override_widget_hovered_bg_stroke_color">>, <<"temp_widget_hovered_bg_stroke_color">>, <<"Hovered">>>>,
    <<"picker", <<"override_widget_active_bg_fill">>, <<"temp_widget_active_bg_fill">>, <<"Active (Clicking)">>>>,
    <<"picker", <<"override_widget_active_bg_stroke_color">>, <<"temp_widget_active_bg_stroke_color">>, <<"Active (Clicking)">>>>,
    <<"picker", <<"override_widget_noninteractive_bg_fill">>, <<"temp_widget_noninteractive_bg_fill">>, <<"Disabled">>>>,
    <<"picker", <<"override_widget_noninteractive_bg_stroke_color">>, <<"temp_widget_noninteractive_bg_stroke_color">>, <<"Disabled">>>>,
    <<"picker", <<"override_widget_inactive_bg_fill">>, <<"temp_widget_inactive_bg_fill">>, <<>>>>,
    <<"picker", <<"override_widget_inactive_bg_stroke_color">>, <<"temp_widget_inactive_bg_stroke_color">>, <<>>>>,
    <<"slider_f32", <<"override_text_cursor_width">>, <<20, 10, 50>>, <<>>>>,
    <<"picker", <<"override_widget_inactive_bg_fill">>, <<"temp_widget_inactive_bg_fill">>, <<>>>>,
    <<"checkbox", <<"override_slider_trailing_fill">>, <<FALSE>>, <<>>>>,
    <<"picker", <<"override_widget_inactive_bg_fill">>, <<"temp_widget_inactive_bg_fill">>, <<>>>>,
    <<"picker", <<"override_widget_inactive_fg_stroke_color">>, <<"temp_widget_inactive_fg_stroke_color">>, <<>>>>,
    <<"picker", <<"override_widget_open_bg_fill">>, <<"temp_widget_open_bg_fill">>, <<"Open State">>>>,
    <<"picker", <<"override_widget_open_bg_stroke_color">>, <<"temp_widget_open_bg_stroke_color">>, <<"Open State">>>>,
    <<"picker", <<"override_selection_bg">>, <<"temp_selection_bg">>, <<>>>>,
    <<"picker", <<"override_selection_stroke_color">>, <<"temp_selection_stroke_color">>, <<>>>>,
    <<"slider_f32", <<"override_selection_stroke_width">>, <<10, 0, 50>>, <<>>>>,
    <<"picker", <<"override_window_fill">>, <<"temp_window_fill">>, <<>>>>,
    <<"picker", <<"override_panel_fill">>, <<"temp_panel_fill">>, <<>>>>,
    <<"picker", <<"override_window_stroke_color">>, <<"temp_window_stroke_color">>, <<>>>>,
    <<"slider_u8", <<"override_window_shadow_size">>, <<16, 0, 500>>, <<>>>>,
    <<"slider_u8", <<"override_widget_inactive_corner_radius", "override_widget_hovered_corner_radius", "override_widget_active_corner_radius", "override_widget_open_corner_radius", "override_widget_noninteractive_corner_radius", "override_window_corner_radius">>, <<2, 0, 200>>, <<>>>>,
    <<"slider_f32", <<"override_widget_inactive_bg_stroke_width", "override_widget_hovered_bg_stroke_width", "override_widget_active_bg_stroke_width", "override_widget_open_bg_stroke_width", "override_widget_noninteractive_bg_stroke_width", "override_window_stroke_width">>, <<10, 0, 50>>, <<>>>>,
    <<"picker", <<"override_code_bg_color">>, <<"temp_code_bg_color">>, <<>>>>,
    <<"picker", <<"override_faint_bg_color">>, <<"temp_faint_bg_color">>, <<>>>>,
    <<"picker", <<"override_extreme_bg_color">>, <<"temp_extreme_bg_color">>, <<>>>>,
    <<"picker", <<"override_warn_fg_color">>, <<"temp_warn_fg_color">>, <<>>>>,
    <<"picker", <<"override_error_fg_color">>, <<"temp_error_fg_color">>, <<>>>>,
    <<"checkbox", <<"override_button_frame">>, <<TRUE>>, <<>>>>,
    <<"checkbox", <<"override_collapsing_header_frame">>, <<FALSE>>, <<>>>>,
    <<"checkbox", <<"override_indent_has_left_vline">>, <<TRUE>>, <<>>>>,
    <<"checkbox", <<"override_striped">>, <<FALSE>>, <<>>>>,
    <<"slider_f32", <<"override_resize_corner_size">>, <<120, 60, 300>>, <<>>>>,
    <<"slider_f32", <<"override_clip_rect_margin">>, <<30, 0, 100>>, <<>>>>,
    <<"slider_u8", <<"override_popup_shadow_size">>, <<16, 0, 500>>, <<>>>>,
    <<"picker", <<"override_widget_inactive_weak_bg_fill">>, <<"temp_widget_inactive_weak_bg_fill">>, <<"Advanced Per-State Controls", "Inactive State (Advanced)">>>>,
    <<"slider_f32", <<"override_widget_inactive_fg_stroke_width">>, <<10, 0, 50>>, <<"Advanced Per-State Controls", "Inactive State (Advanced)">>>>,
    <<"slider_f32", <<"override_widget_inactive_expansion">>, <<0, -50, 100>>, <<"Advanced Per-State Controls", "Inactive State (Advanced)">>>>,
    <<"picker", <<"override_widget_hovered_weak_bg_fill">>, <<"temp_widget_hovered_weak_bg_fill">>, <<"Advanced Per-State Controls", "Hovered State (Advanced)">>>>,
    <<"slider_f32", <<"override_widget_hovered_fg_stroke_width">>, <<10, 0, 50>>, <<"Advanced Per-State Controls", "Hovered State (Advanced)">>>>,
    <<"slider_f32", <<"override_widget_hovered_expansion">>, <<0, -50, 100>>, <<"Advanced Per-State Controls", "Hovered State (Advanced)">>>>,
    <<"picker", <<"override_widget_active_weak_bg_fill">>, <<"temp_widget_active_weak_bg_fill">>, <<"Advanced Per-State Controls", "Active State (Advanced)">>>>,
    <<"slider_f32", <<"override_widget_active_fg_stroke_width">>, <<10, 0, 50>>, <<"Advanced Per-State Controls", "Active State (Advanced)">>>>,
    <<"slider_f32", <<"override_widget_active_expansion">>, <<0, -50, 100>>, <<"Advanced Per-State Controls", "Active State (Advanced)">>>>,
    <<"picker", <<"override_widget_open_weak_bg_fill">>, <<"temp_widget_open_weak_bg_fill">>, <<"Advanced Per-State Controls", "Open State (Advanced)">>>>,
    <<"slider_f32", <<"override_widget_open_fg_stroke_width">>, <<10, 0, 50>>, <<"Advanced Per-State Controls", "Open State (Advanced)">>>>,
    <<"slider_f32", <<"override_widget_open_expansion">>, <<0, -50, 100>>, <<"Advanced Per-State Controls", "Open State (Advanced)">>>>,
    <<"picker", <<"override_widget_noninteractive_weak_bg_fill">>, <<"temp_widget_noninteractive_weak_bg_fill">>, <<"Advanced Per-State Controls", "Noninteractive State (Advanced)">>>>,
    <<"slider_f32", <<"override_widget_noninteractive_fg_stroke_width">>, <<10, 0, 50>>, <<"Advanced Per-State Controls", "Noninteractive State (Advanced)">>>>,
    <<"slider_f32", <<"override_widget_noninteractive_expansion">>, <<0, -50, 100>>, <<"Advanced Per-State Controls", "Noninteractive State (Advanced)">>>> >>

UiTempNames == {UiTempTable[i][1] : i \in 1..Len(UiTempTable)}

UiTempExpr(t) == UiTempTable[CHOOSE i \in 1..Len(UiTempTable) : UiTempTable[i][1] = t][2]

ThemeEditorState_default_light_buffers ==
    LET visuals == BaseVisuals(FALSE) IN
    [f \in DOMAIN StateFields(all_presets) \cup UiTempNames |->
        IF f \in UiTempNames THEN TempValue(visuals, UiTempExpr(f))
        ELSE StateFields(all_presets)[f]]

\* impl Default for ThemeEditorState (state.rs)
ThemeEditorState_default ==
    LET visuals == BaseVisuals(TRUE) IN
    [f \in DOMAIN StateFields(all_presets) \cup UiTempNames |->
        IF f \in UiTempNames THEN TempValue(visuals, UiTempExpr(f))
        ELSE StateFields(all_presets)[f]]

reset_temp_colors_resolved(self) ==
    LET visuals == to_visuals(self.current_config) IN
    [f \in DOMAIN self |->
        IF f \in UiTempNames THEN TempValue(visuals, UiTempExpr(f)) ELSE self[f]]

\* ThemeEditorState::reset_temp_colors (state.rs)
reset_temp_colors(self) ==
    LET visuals == BaseVisuals(self.current_config.dark_mode) IN
    [f \in DOMAIN self |->
        IF f \in UiTempNames THEN TempValue(visuals, UiTempExpr(f)) ELSE self[f]]

NumControls == Len(UiControls)

CtlKind(i) == UiControls[i][1]

CtlKeys(i) == UiControls[i][2]

CtlArgs(i) == UiControls[i][3]

CtlHeaders == [i \in 1..NumControls |-> {UiControls[i][4][n] : n \in 1..Len(UiControls[i][4])}]

CollapsingHeaders == UNION {CtlHeaders[i] : i \in 1..NumControls}

\* A control is drawn when every collapsing header around it is open.
Visible(i, open) == CtlHeaders[i] \subseteq open

\* The pickers that edit a buffer.
PickersOf ==
    [t \in UiTempNames |->
        {i \in 1..NumControls : CtlKind(i) = "picker" /\ CtlArgs(i)[1] = t}]

\* The sections of render_theme_editor (ui.rs), drawn from the state `before`
\* that the header row left.  Every visible picker first assigns its buffer
\* from current_config.to_visuals().  The user triggers the control `at`
\* (0: none): `after` is `before` with the control's assignments to
\* current_config, how is "changed" or "reset", color the picked colour.  A
\* picker's Reset calls reset_temp_colors.  The buffers end as the last
\* assignment in drawing order left them.
render_sections(before, at, after, how, color, open) ==
    LET v1 == to_visuals(before.current_config)
        v2 == IF at = 0 THEN v1 ELSE to_visuals(after.current_config)
        base == BaseVisuals(after.current_config.dark_mode)
        picker == at # 0 /\ CtlKind(at) = "picker"
    IN  [f \in DOMAIN after |->
            IF f \notin UiTempNames THEN after[f]
            ELSE IF \E i \in PickersOf[f] : i > at /\ Visible(i, open)
                 THEN TempValue(v2, UiTempExpr(f))
            ELSE IF picker /\ how = "reset" THEN TempValue(base, UiTempExpr(f))
            ELSE IF picker /\ how = "changed" /\ CtlArgs(at)[1] = f THEN color
            ELSE IF \E i \in PickersOf[f] : i < at /\ Visible(i, open)
                 THEN TempValue(v1, UiTempExpr(f))
            ELSE before[f]]

(***************************************************************************)
(* SpecUiEditor: a session of the editor of ui.rs.  One step is one frame: *)
(* render_theme_panel (or the demo's update) installs                      *)
(* current_config.to_visuals() in the context and then calls               *)
(* render_theme_editor, in which the user triggers at most one widget; ret *)
(* names the last widget triggered.  ctx.open is the set of collapsing     *)
(* headers that are open during the session.                               *)
(***************************************************************************)
\* Number of user events explored in one session of the ui.rs editor.
MaxUiEvents == 1

OpenSets == {{}, CollapsingHeaders}

\* Values a slider over low..high delivers, in tenths.
SliderSamples(low, high) == {low + 15, high}

InitUiEditor ==
    /\ editor_state = ThemeEditorState_default
    /\ \E dark \in BOOLEAN : \E open \in OpenSets :
           ctx = [visuals |-> BaseVisuals(dark), open |-> open]
    /\ file = NoFile
    /\ config = Default
    /\ fileFrom = None
    /\ ret = NoResult
    /\ ops = 0

UiEvent_clears_index(new_state, op, out) ==
    /\ ops < MaxUiEvents
    /\ ops' = ops + 1
    /\ editor_state' = IF op \in {"select_preset", "demo_dark_preset", "demo_light_preset"}
                        THEN new_state
                        ELSE [new_state EXCEPT !.selected_preset_index = None]
    /\ ctx' = [ctx EXCEPT !.visuals = to_visuals(editor_state.current_config)]
    /\ ret' = [op |-> op, out |-> out]
    /\ UNCHANGED <<config, file, fileFrom>>

UiEvent(new_state, op, out) ==
    /\ ops < MaxUiEvents
    /\ ops' = ops + 1
    /\ editor_state' = new_state
    /\ ret' = [op |-> op, out |-> out]
    /\ ctx' = [ctx EXCEPT !.visuals = to_visuals(editor_state.current_config)]
    /\ UNCHANGED <<config, file, fileFrom>>

with_keys_first_only(self, keys, value) ==
    [f \in DOMAIN self |-> IF keys[1] = f THEN value ELSE self[f]]

\* current_config with the same value assigned to each of the keys.
with_keys(self, keys, value) ==
    [f \in DOMAIN self |->
        IF \E n \in 1..Len(keys) : keys[n] = f THEN value ELSE self[f]]

\* A frame in which the editor window is closed.
UiRenderThemePanel ==
    /\ ctx' = [ctx EXCEPT !.visuals = to_visuals(editor_state.current_config)]
    /\ UNCHANGED <<editor_state, config, file, fileFrom, ret, ops>>

\* A frame in which no widget is triggered.
UiIdleFrame ==
    /\ ctx' = [ctx EXCEPT !.visuals = to_visuals(editor_state.current_config)]
    /\ editor_state' = render_sections(editor_state, 0, editor_state, "none", <<>>, ctx.open)
    /\ UNCHANGED <<config, file, fileFrom, ret, ops>>

UiEditName ==
    \E n \in Names :
        LET before == [editor_state EXCEPT !.current_config.name = n] IN
        UiEvent(render_sections(before, 0, before, "none", <<>>, ctx.open), "name", n)

UiToggleDarkMode ==
    LET before == reset_temp_colors([editor_state EXCEPT !.current_config.dark_mode = ~@]) IN
        UiEvent(render_sections(before, 0, before, "none", <<>>, ctx.open), "dark_mode", <<>>)

UiSelectPreset ==
    \E index \in 0..(Len(editor_state.presets) - 1) :
        LET preset == editor_state.presets[index + 1]
            before == reset_temp_colors([editor_state EXCEPT
                          !.selected_preset_index = Some(index),
                          !.current_config = preset])
        IN  UiEvent(render_sections(before, 0, before, "none", <<>>, ctx.open),
                    "select_preset", index)

UiExportCode ==
    LET before == [editor_state EXCEPT !.show_code_export = ~@] IN
        UiEvent(render_sections(before, 0, before, "none", <<>>, ctx.open), "export_code", <<>>)

UiPickerChanged ==
    \E at \in 1..NumControls : \E c \in PickedColors :
        /\ CtlKind(at) = "picker"
        /\ Visible(at, ctx.open)
        /\ LET after == [editor_state EXCEPT
                            !.current_config = with_keys(@, CtlKeys(at), Some(to_array(c)))]
           IN  UiEvent(render_sections(editor_state, at, after, "changed", c, ctx.open),
                       "picker", CtlKeys(at)[1])

UiSliderChanged ==
    \E at \in 1..NumControls :
        /\ CtlKind(at) \in {"slider_f32", "slider_u8"}
        /\ Visible(at, ctx.open)
        /\ \E v \in SliderSamples(CtlArgs(at)[2], CtlArgs(at)[3]) :
            LET value == IF CtlKind(at) = "slider_u8" THEN v \div 10 ELSE v
                after == [editor_state EXCEPT
                             !.current_config = with_keys(@, CtlKeys(at), Some(value))]
            IN  UiEvent(render_sections(editor_state, at, after, "changed", <<>>, ctx.open),
                        "slider", CtlKeys(at)[1])

UiCheckboxChanged ==
    \E at \in 1..NumControls :
        /\ CtlKind(at) = "checkbox"
        /\ Visible(at, ctx.open)
        /\ LET old == editor_state.current_config[CtlKeys(at)[1]]
               value == ~(IF is_some(old) THEN unwrap(old) ELSE CtlArgs(at)[1])
               after == [editor_state EXCEPT
                            !.current_config = with_keys(@, CtlKeys(at), Some(value))]
           IN  UiEvent(render_sections(editor_state, at, after, "changed", <<>>, ctx.open),
                       "checkbox", CtlKeys(at)[1])

\* The Reset button next to a control.
UiFieldReset ==
    \E at \in 1..NumControls :
        /\ Visible(at, ctx.open)
        /\ LET after == [editor_state EXCEPT
                            !.current_config = with_keys(@, CtlKeys(at), None)]
           IN  UiEvent(render_sections(editor_state, at, after, "reset", <<>>, ctx.open),
                       "field_reset", CtlKeys(at)[1])

\* A frame of the demo application (demo/src/app.rs) in which a button of
\* its top panel is clicked; the editor is drawn after it when its window is
\* shown.
demo_frame(after_button, shown) ==
    IF shown
    THEN render_sections(after_button, 0, after_button, "none", <<>>, ctx.open)
    ELSE after_button

UiDemoDarkPreset ==
    \E shown \in BOOLEAN :
        LET s == [editor_state EXCEPT !.current_config = dark_preset] IN
        UiEvent(demo_frame([reset_temp_colors(s) EXCEPT !.selected_preset_index = Some(0)], shown),
                "demo_dark_preset", <<>>)

UiDemoLightPreset ==
    \E shown \in BOOLEAN :
        LET s == [editor_state EXCEPT !.current_config = light_preset] IN
        UiEvent(demo_frame([reset_temp_colors(s) EXCEPT !.selected_preset_index = Some(1)], shown),
                "demo_light_preset", <<>>)

UiDemoRandomize ==
    \E rng \in RngStreams : \E shown \in BOOLEAN :
        LET s == [editor_state EXCEPT !.current_config = randomize(rng)] IN
        UiEvent(demo_frame([reset_temp_colors(s) EXCEPT !.selected_preset_index = None], shown),
                "demo_randomize", <<>>)

NextUiEditor ==
    \/ UiRenderThemePanel
    \/ UiIdleFrame
    \/ UiEditName
    \/ UiToggleDarkMode
    \/ UiSelectPreset
    \/ UiExportCode
    \/ UiPickerChanged
    \/ UiSliderChanged
    \/ UiCheckboxChanged
    \/ UiFieldReset
    \/ UiDemoDarkPreset
    \/ UiDemoLightPreset
    \/ UiDemoRandomize

SpecUiEditor == InitUiEditor /\ [][NextUiEditor]_vars

(***************************************************************************)
(* Properties of the editors.                                              *)
(***************************************************************************)
\* The widgets of render_theme_editor (ui.rs) that assign to current_config.
UiEditorOps ==
    {"name", "dark_mode", "select_preset", "picker", "slider", "checkbox", "field_reset"}

\* C11 (Immediate apply): whenever a call of render_theme_editor changes
\* current_config, the visuals installed in the context at the end of that
\* call are current_config.to_visuals().
ImmediateApply ==
    [][(/\ ops' = ops + 1
        /\ ret'.op \in UiEditorOps
        /\ editor_state'.current_config # editor_state.current_config)
       => ctx'.visuals = to_visuals(editor_state'.current_config)]_vars

\* The buffer t holds the attribute of the resolved style it edits.
LibBufferFollows(t) ==
    editor_state[t] = TempValue(lib_to_visuals(editor_state.current_config), LibTempExpr(t))

\* C12 (Scratch buffers follow the resolved style): after a preset
\* selection, a Reset to Dark/Light, a Randomize or a successful load, every
\* temp_* buffer equals the corresponding attribute of
\* current_config.to_visuals().
BuffersFollowStyle ==
    (\/ ret.op \in {"select_preset", "reset_to_dark", "reset_to_light", "randomize"}
     \/ ret.op = "load_theme" /\ ret.out # None /\ unwrap(ret.out)[1] = "Ok")
    => \A t \in LibTempNames : LibBufferFollows(t)


\* The ten colour keys named in the overview of the crate.
HeadlineKeys ==
    {"override_text_color", "override_window_fill", "override_panel_fill",
     "override_selection_bg", "override_hyperlink_color", "override_faint_bg_color",
     "override_extreme_bg_color", "override_code_bg_color", "override_warn_fg_color",
     "override_error_fg_color"}

\* self sets exactly the headline keys, each to an opaque colour of four bytes.
HeadlineShape(self) ==
    /\ SetKeys(self) = HeadlineKeys
    /\ \A k \in HeadlineKeys :
          /\ unwrap(self[k])[4] = 255
          /\ \A i \in 1..3 : unwrap(self[k])[i] \in 0..255

\* C13 (Randomizer shape): every result of randomize() is named "Random",
\* sets exactly the ten headline colour keys, each with alpha 255 and R, G, B
\* in 0..255, and leaves every other override key None.
RandomizerShape ==
    ret.op = "demo_randomize" =>
        /\ editor_state.current_config.name = "Random"
        /\ Cardinality(HeadlineKeys) = 10
        /\ HeadlineShape(editor_state.current_config)

RandomizerShapeWitness ==
    /\ ret.op = "demo_randomize"
    /\ editor_state.current_config.override_error_fg_color = Some(<<29, 66, 103, 255>>)
    /\ ~editor_state.current_config.dark_mode

\* C14 (Randomizer determinism under a seed): two calls of randomize made
\* with the same seed return equal configurations.  randomize() has no
\* parameter, so any two calls are made with the same arguments: the result
\* of a call equals the result of every other call.
RandomizerDeterministic ==
    ret.op = "demo_randomize" =>
        \A rng \in RngStreams : editor_state.current_config = randomize(rng)


\* The names of the built-in presets, in catalog order.
CatalogNames ==
    << "Dark", "Light", "Dracula", "Nord", "Gruvbox Dark", "Solarized Dark",
       "Solarized Light", "Monokai", "One Dark", "Tokyo Night", "Catppuccin Mocha" >>

\* C15 (Preset catalog is fixed and immutable): the catalog of the editor
\* state always holds the 11 presets in the order Dark, Light, Dracula, Nord,
\* Gruvbox Dark, Solarized Dark, Solarized Light, Monokai, One Dark, Tokyo
\* Night, Catppuccin Mocha, each equal to the result of its factory, whatever
\* editor operations have run.
CatalogFixed ==
    LET presets == editor_state.presets IN
    /\ Len(presets) = 11
    /\ [i \in 1..11 |-> presets[i].name] = CatalogNames
    /\ presets[1] = dark_preset
    /\ presets[2] = light_preset
    /\ presets[3] = dracula_preset
    /\ presets[4] = nord_preset
    /\ presets[5] = gruvbox_dark_preset
    /\ presets[6] = solarized_dark_preset
    /\ presets[7] = solarized_light_preset
    /\ presets[8] = monokai_preset
    /\ presets[9] = one_dark_preset
    /\ presets[10] = tokyo_night_preset
    /\ presets[11] = catppuccin_mocha_preset

CatalogFixedWitness ==
    /\ ops >= 1
    /\ ret.op \in {"picker", "field_reset", "dark_mode", "name", "demo_randomize"}
    /\ \A i \in 1..Len(editor_state.presets) :
          editor_state.presets[i] # editor_state.current_config


\* C16 (Dark and Light presets carry no overrides): dark_preset() and
\* light_preset() have every override key None and differ only in name and
\* dark_mode; the style resolved from the configuration installed by the
\* Dark (Light) preset is exactly the dark (light) base style.
PlainPresets ==
    /\ ret.op \in {"demo_dark_preset", "demo_light_preset"} =>
          LET self == editor_state.current_config IN
          /\ self = (IF ret.op = "demo_dark_preset" THEN dark_preset ELSE light_preset)
          /\ SetKeys(self) = {}
          /\ self.dark_mode = (ret.op = "demo_dark_preset")
          /\ to_visuals(self) = BaseVisuals(self.dark_mode)
    /\ ret.op = "select_preset" /\ ret.out \in {0, 1} =>
          LET self == editor_state.current_config IN
          /\ SetKeys(self) = {}
          /\ self.dark_mode = (ret.out = 0)
          /\ to_visuals(self) = BaseVisuals(ret.out = 0)
    /\ \A f \in FieldNames \ {"name", "dark_mode"} :
          editor_state.presets[1][f] = editor_state.presets[2][f]

PlainPresetsWitness ==
    /\ ret.op = "demo_light_preset"
    /\ editor_state.current_config.name = "Light"
    /\ ctx.visuals = BaseVisuals(TRUE)

\* C17 (Rich presets populate one fixed key set): each of the nine presets
\* other than Dark and Light sets exactly the ten headline colour keys (the
\* keys randomize sets), each with alpha 255, and leaves every other key
\* None; the names of the catalog are pairwise distinct.
RichPresets ==
    LET presets == editor_state.presets IN
    /\ HeadlineKeys = Range(RandomizeOrder)
    /\ \A i \in 3..Len(presets) : HeadlineShape(presets[i])
    /\ \A i, j \in 1..Len(presets) : presets[i].name = presets[j].name => i = j
    /\ ret.op = "select_preset" /\ ret.out >= 2 =>
          HeadlineShape(editor_state.current_config)

RichPresetsWitness ==
    /\ ret.op = "select_preset"
    /\ ret.out = 10
    /\ editor_state.current_config.name = "Catppuccin Mocha"
    /\ Len(editor_state.presets) = 11


IndexNoneMeansCustom ==
    ret.op \in {"picker", "field_reset", "dark_mode", "demo_randomize"} =>
        editor_state.selected_preset_index = None

\* The widgets of render_theme_editor (ui.rs) that edit one field of
\* current_config or of the editor state.
UiFieldEdits ==
    {"name", "dark_mode", "picker", "slider", "checkbox", "field_reset", "export_code"}

\* C20 (Divergence is reachable in the ui.rs editor): no field edit of the
\* ui.rs editor changes selected_preset_index, so the state in which the
\* index is Some(i) while current_config differs from presets[i] is reached.
FieldEditsKeepIndex ==
    [][ops' = ops + 1 /\ ret'.op \in UiFieldEdits
       => editor_state'.selected_preset_index = editor_state.selected_preset_index]_vars

Diverged ==
    /\ editor_state.selected_preset_index # None
    /\ editor_state.current_config
         # editor_state.presets[unwrap(editor_state.selected_preset_index) + 1]
    /\ ret.op \in UiFieldEdits


\* C21 (Failed load leaves the session untouched): when the Load action of
\* the editor gets an error from load_from_file, current_config,
\* selected_preset_index, presets and every temp_* buffer (the whole editor
\* state) and the installed visuals keep the values they had before.
FailedLoadKeepsSession ==
    [][(/\ ops' = ops + 1
        /\ ret'.op = "load_theme"
        /\ ret'.out # None
        /\ unwrap(ret'.out)[1] = "Err")
       => editor_state' = editor_state /\ ctx' = ctx]_vars

FailedLoadKeepsSessionWitness ==
    /\ ret.op = "load_theme"
    /\ ret.out = Some(Err("syntax"))
    /\ editor_state.current_config.name = "Dracula"
    /\ editor_state.selected_preset_index = Some(2)


\* C22 (Preset selection replaces the config wholesale): clicking preset i
\* in the preset box sets selected_preset_index to Some(i) and
\* current_config to presets[i] in name, dark_mode and every override key,
\* whatever the configuration was before.
PresetSelectionWholesale ==
    [][ops' = ops + 1 /\ ret'.op = "select_preset"
       => /\ editor_state'.selected_preset_index = Some(ret'.out)
          /\ \A f \in LibFieldNames :
                editor_state'.current_config[f] = editor_state.presets[ret'.out + 1][f]
          /\ DOMAIN editor_state'.current_config = LibFieldNames]_vars

PresetSelectionWholesaleWitness ==
    /\ ret.op = "select_preset"
    /\ ret.out = 1
    /\ ops >= 2
    /\ editor_state.current_config = lib_light_preset
    /\ editor_state.selected_preset_index = Some(1)


\* C23 (Preset-index consistency, lib.rs editor and demo buttons): whenever
\* selected_preset_index is Some(i), i is less than the number of presets
\* and current_config equals presets[i].
PresetIndexConsistent ==
    editor_state.selected_preset_index # None =>
        LET i == unwrap(editor_state.selected_preset_index) IN
        /\ i < Len(editor_state.presets)
        /\ editor_state.current_config = editor_state.presets[i + 1]

PresetIndexConsistentWitness ==
    /\ ops >= 2
    /\ ret.op \in {"reset_to_light", "demo_light_preset"}
    /\ editor_state.selected_preset_index = Some(1)
    /\ editor_state.show_code_export


\* C24 (Reset buttons agree with the catalog order): Reset to Dark and the
\* demo's Dark Preset button set current_config to dark_preset() and
\* selected_preset_index to Some(0), Reset to Light and Light Preset set
\* light_preset() and Some(1), and presets[0] is dark_preset() and
\* presets[1] is light_preset().
ResetAgreesWithCatalog ==
    /\ ret.op \in {"reset_to_dark", "demo_dark_preset"} =>
          /\ editor_state.current_config = lib_dark_preset
          /\ editor_state.selected_preset_index = Some(0)
          /\ editor_state.presets[0 + 1] = lib_dark_preset
    /\ ret.op \in {"reset_to_light", "demo_light_preset"} =>
          /\ editor_state.current_config = lib_light_preset
          /\ editor_state.selected_preset_index = Some(1)
          /\ editor_state.presets[1 + 1] = lib_light_preset

ResetAgreesWithCatalogWitness ==
    /\ ret.op = "reset_to_dark"
    /\ ops >= 2
    /\ ctx.visuals = BaseVisuals(TRUE)
    /\ editor_state.presets[1].name = "Dark"
    /\ editor_state.current_config.name = "Dark"


\* C25 (Initial session state): before any editor event the state built by
\* ThemeEditorState::default() has current_config = presets[0], the Dark
\* preset, equal to ThemeConfig::default() with every override None,
\* selected_preset_index = Some(0), show_code_export = false and every
\* temp_* buffer equal to the dark base style's attribute, so that
\* reset_temp_colors() changes nothing.
InitialSessionState ==
    ops = 0 =>
        /\ editor_state.current_config = editor_state.presets[0 + 1]
        /\ editor_state.current_config = dark_preset
        /\ editor_state.current_config = Default
        /\ SetKeys(editor_state.current_config) = {}
        /\ editor_state.selected_preset_index = Some(0)
        /\ editor_state.show_code_export = FALSE
        /\ \A t \in UiTempNames :
              editor_state[t] = TempValue(BaseVisuals(TRUE), UiTempExpr(t))
        /\ reset_temp_colors(editor_state) = editor_state

InitialSessionStateWitness ==
    /\ ops = 0
    /\ ret = NoResult
    /\ Cardinality(UiTempNames) = 33
    /\ editor_state.temp_widget_open_fg_stroke_color
         = BaseVisuals(TRUE)["widgets.open.fg_stroke.color"]
    /\ ctx.open = CollapsingHeaders


\* The editor state with the overrides of current_config removed.
WithoutOverrides(self) ==
    [self EXCEPT !.current_config =
        IF self.current_config.dark_mode THEN dark_preset ELSE light_preset]

\* C26 (reset_temp_colors frame and idempotence): reset_temp_colors()
\* changes only the temp_* buffers, the values it writes depend only on
\* current_config.dark_mode and not on the overrides, and a second call
\* changes nothing.
ResetTempColorsFrame ==
    LET once == reset_temp_colors(editor_state) IN
    /\ DOMAIN once = DOMAIN editor_state
    /\ \A f \in DOMAIN editor_state \ UiTempNames : once[f] = editor_state[f]
    /\ \A t \in UiTempNames : once[t] = reset_temp_colors(WithoutOverrides(editor_state))[t]
    /\ reset_temp_colors(once) = once

ResetTempColorsFrameWitness ==
    /\ ret.op = "select_preset"
    /\ ret.out = 2
    /\ SetKeys(editor_state.current_config) # {}
    /\ editor_state.temp_text_color # text_color(BaseVisuals(TRUE))
    /\ reset_temp_colors(editor_state).temp_text_color = text_color(BaseVisuals(TRUE))


\* The attributes of the style that the set keys of self write.
LibOverriddenAttrs(self) ==
    {LibKeyTable[i][3] : i \in {j \in 1..LibNumKeys : is_some(self[LibKeyTable[j][1]])}}

\* C27 (Dark-mode toggle keeps the overrides): toggling the Dark Mode
\* checkbox flips current_config.dark_mode, resets the temp_* buffers and
\* leaves the name and every override key unchanged, so the resolved style
\* is the other base style with the same overrides applied; a second toggle
\* restores the original current_config.
DarkModeToggleKeepsOverrides ==
    [][ops' = ops + 1 /\ ret'.op = "dark_mode"
       => LET old == editor_state.current_config
              new == editor_state'.current_config
              resolved == lib_to_visuals(new)
          IN  /\ new.dark_mode = ~old.dark_mode
              /\ \A f \in LibFieldNames \ {"dark_mode"} : new[f] = old[f]
              /\ \A t \in LibTempNames :
                    editor_state'[t] = TempValue(BaseVisuals(new.dark_mode), LibTempExpr(t))
              /\ \A attr \in DOMAIN resolved :
                    resolved[attr] = IF attr \in LibOverriddenAttrs(old)
                                     THEN lib_to_visuals(old)[attr]
                                     ELSE BaseVisuals(~old.dark_mode)[attr]
              /\ (ret.op = "dark_mode" /\ ops = 1)
                    => new = lib_ThemeEditorState_default.current_config]_vars

DarkModeToggleKeepsOverridesWitness ==
    /\ ret.op = "dark_mode"
    /\ editor_state.current_config.dark_mode
    /\ editor_state.current_config.override_panel_fill = Some(<<1, 2, 3, 255>>)
    /\ editor_state.current_config.name = "Mine"
    /\ ctx.visuals["panel_fill"] = <<"Color32", <<1, 2, 3, 255>>>>


\* The keys written by the global Corner Radius slider of render_shape_section.
CornerRadiusGroup ==
    {"override_widget_inactive_corner_radius", "override_widget_hovered_corner_radius",
     "override_widget_active_corner_radius", "override_widget_open_corner_radius",
     "override_widget_noninteractive_corner_radius", "override_window_corner_radius"}

\* The keys written by the global Border Width slider of render_shape_section.
BorderWidthGroup ==
    {"override_widget_inactive_bg_stroke_width", "override_widget_hovered_bg_stroke_width",
     "override_widget_active_bg_stroke_width", "override_widget_open_bg_stroke_width",
     "override_widget_noninteractive_bg_stroke_width", "override_window_stroke_width"}

\* The keys of the group are all None or all Some with one value.
Uniform(self, group) == \A k1, k2 \in group : self[k1] = self[k2]

\* The group and the values (low..high, tenths for f32) of a global control.
GlobalShapeControls ==
    { <<"override_widget_inactive_corner_radius", CornerRadiusGroup, 0, 20>>,
      <<"override_widget_inactive_bg_stroke_width", BorderWidthGroup, 0, 50>> }

UiTempOf(k) ==
    CtlArgs(CHOOSE i \in 1..NumControls : CtlKind(i) = "picker" /\ CtlKeys(i)[1] = k)[1]

\* C29 (Picker round-trip): when the colour picker for key k changes its
\* buffer to colour c, the editor stores Some(c.to_array()) in override k and
\* the attribute for k in the next current_config.to_visuals() equals c, also
\* for colours with alpha below 255.
PickerRoundTrip ==
    ret.op = "picker" =>
        LET t == UiTempOf(ret.out)
            c == editor_state[t]
        IN  /\ editor_state.current_config[ret.out] = Some(to_array(c))
            /\ TempValue(to_visuals(editor_state.current_config), UiTempExpr(t)) = c


\* The configuration of the lib.rs variant with the fields of self that the
\* variant has.
AsLibConfig(self) == [f \in LibFieldNames |-> self[f]]

\* C30 (The two ThemeConfig variants agree): for every configuration in
\* which only the ten headline colour keys may be set, to_visuals() and
\* to_rust_code() of config.rs return what the lib.rs variant returns for the
\* same name, mode and ten keys, and the preset catalogs of the two variants
\* are equal entry by entry.
VariantsAgree ==
    /\ (ret.op = "to_visuals" /\ SetKeys(config) \subseteq HeadlineKeys)
          => ret.out = lib_to_visuals(AsLibConfig(config))
    /\ (ret.op = "to_rust_code" /\ SetKeys(config) \subseteq HeadlineKeys)
          => ret.out = lib_to_rust_code(AsLibConfig(config))
    /\ LibKeys = HeadlineKeys
    /\ Len(lib_all_presets) = Len(all_presets)
    /\ \A i \in 1..Len(all_presets) :
          /\ SetKeys(all_presets[i]) \subseteq HeadlineKeys
          /\ lib_all_presets[i] = AsLibConfig(all_presets[i])

VariantsAgreeWitness ==
    /\ ret.op = "to_rust_code"
    /\ config = Single(FALSE, "override_hyperlink_color", <<255, 0, 0, 128>>)
    /\ Len(ret.out) = 5
    /\ ret.out = lib_to_rust_code(AsLibConfig(config))

====
